---- MODULE Spec2Model ----
(***************************************************************************)
(* The donation API route /api/donate/$recipient/$network of x402-donate:  *)
(* the 402 challenge (GET, POST without proof) and the verify-then-settle  *)
(* redemption (POST with proof) against the external facilitator.          *)
(*                                                                         *)
(* Text values that the code inspects character by character (the amount   *)
(* query value, the recipient) are sequences of one-character strings.     *)
(* Opaque encodings (base64, JSON text) are free constructors, and the     *)
(* decoders (atob, JSON.parse) are their partial inverses, which throw on  *)
(* every value that is not an encoding.                                    *)
(*                                                                         *)
(* A JavaScript Number that holds an integer is kept as its sign and the   *)
(* exact decimal digits of the double.  parseInt, the product by 10000 and *)
(* the quotient by 100 round to the nearest double (ties to even), and     *)
(* toString prints the shortest digits that read back as the same double.  *)
(* A character that a string literal cannot hold is named by its code      *)
(* point, as in "U+2615".                                                  *)
(***************************************************************************)
EXTENDS Integers, Sequences, FiniteSets, TLC

\* ------------------------------------------------------------------ bounds
NumReqs == 2        \* request slots of the server process

\* ------------------------------------------------------- text and numbers
Rep(c, n) == [i \in 1..n |-> c]

DigitChars == <<"0", "1", "2", "3", "4", "5", "6", "7", "8", "9">>
IsDigit(c) == c \in {DigitChars[i] : i \in 1..10}
IsHex(c) == IsDigit(c) \/ c \in {"a", "b", "c", "d", "e", "f", "A", "B", "C", "D", "E", "F"}
\* StrWhiteSpaceChar: the white space and line terminators parseInt skips.
IsWhiteSpace(c) == c \in {" ", "\t", "\n", "\r", "\f", "U+000B", "U+00A0", "U+1680",
                          "U+2000", "U+2001", "U+2002", "U+2003", "U+2004", "U+2005",
                          "U+2006", "U+2007", "U+2008", "U+2009", "U+200A", "U+2028",
                          "U+2029", "U+202F", "U+205F", "U+3000", "U+FEFF"}

RECURSIVE NatToStr(_)
NatToStr(n) == IF n < 10 THEN <<DigitChars[n + 1]>>
               ELSE NatToStr(n \div 10) \o <<DigitChars[(n % 10) + 1]>>

RECURSIVE TrimStart(_)
TrimStart(s) == IF s # <<>> /\ IsWhiteSpace(Head(s)) THEN TrimStart(Tail(s)) ELSE s

RECURSIVE DigitPrefix(_)
DigitPrefix(s) == IF s # <<>> /\ IsDigit(Head(s))
                  THEN <<Head(s)>> \o DigitPrefix(Tail(s)) ELSE <<>>

RECURSIVE StripLeadingZeros(_)
StripLeadingZeros(s) == IF s # <<>> /\ Head(s) = "0" THEN StripLeadingZeros(Tail(s)) ELSE s

RECURSIVE StripTrailingZeros(_)
StripTrailingZeros(s) == IF s # <<>> /\ s[Len(s)] = "0"
                         THEN StripTrailingZeros(SubSeq(s, 1, Len(s) - 1)) ELSE s

\* ---------------------------------------- naturals as decimal digit strings
\* A natural number is the sequence of its decimal digits, <<>> for zero.
\* The arithmetic a double needs is done on its limbs, the values of its
\* digits in groups of five, five bits at a time, so that no intermediate
\* value leaves the 32-bit integers.
DigitValue(c) == CHOOSE d \in 0..9 : DigitChars[d + 1] = c

\* the integer a short digit string denotes
RECURSIVE Value(_)
Value(s) == IF s = <<>> THEN 0
            ELSE 10 * Value(SubSeq(s, 1, Len(s) - 1)) + DigitValue(s[Len(s)])

ChunkBits == 5

\* the limbs of a natural, most significant first, and the digits of limbs
Limbs(s) ==
    LET padded == Rep("0", (ChunkBits - (Len(s) % ChunkBits)) % ChunkBits) \o s
    IN  [j \in 1..(Len(padded) \div ChunkBits) |->
            Value(SubSeq(padded, ChunkBits * (j - 1) + 1, ChunkBits * j))]

Digits(limbs) ==
    StripLeadingZeros(<<>> \o [p \in 1..(ChunkBits * Len(limbs)) |->
        DigitChars[((limbs[((p - 1) \div ChunkBits) + 1]
                        \div (10 ^ (ChunkBits - 1 - ((p - 1) % ChunkBits)))) % 10) + 1]])

\* floor(limbs / m) for a divisor m of 10^5: the remainder of a prefix is the
\* remainder of its last limb, and the top limb of the quotient may be zero
Quotient(limbs, m) ==
    LET q == <<>> \o [j \in 1..Len(limbs) |->
                 ((IF j = 1 THEN 0 ELSE limbs[j - 1] % m) * (10 ^ ChunkBits) + limbs[j])
                     \div m]
    IN  IF q # <<>> /\ q[1] = 0 THEN Tail(q) ELSE q

\* floor(limbs / 2^t)
RECURSIVE DivPowerOfTwo(_, _)
DivPowerOfTwo(limbs, t) ==
    IF t = 0 THEN limbs
    ELSE IF t < ChunkBits THEN Quotient(limbs, 2 ^ t)
    ELSE DivPowerOfTwo(Quotient(limbs, 2 ^ ChunkBits), t - ChunkBits)

\* limbs * 2^t: a limb of zeros appended is a factor 10^5, and the quotient
\* by 5^5 is exact
RECURSIVE TimesPowerOfTwo(_, _)
TimesPowerOfTwo(limbs, t) ==
    IF t = 0 THEN limbs
    ELSE IF t < ChunkBits
    THEN Quotient(Quotient(limbs \o <<0>>, 5 ^ ChunkBits), 2 ^ (ChunkBits - t))
    ELSE TimesPowerOfTwo(Quotient(limbs \o <<0>>, 5 ^ ChunkBits), t - ChunkBits)

\* s + 1
Succ(s) ==
    IF \A i \in 1..Len(s) : s[i] = "9" THEN <<"1">> \o Rep("0", Len(s))
    ELSE LET k == CHOOSE i \in 1..Len(s) :
                      s[i] # "9" /\ \A j \in (i + 1)..Len(s) : s[j] = "9"
         IN  SubSeq(s, 1, k - 1) \o <<DigitChars[DigitValue(s[k]) + 2]>>
                 \o Rep("0", Len(s) - k)

\* a < b on naturals
Less(a, b) ==
    \/ Len(a) < Len(b)
    \/ /\ Len(a) = Len(b)
       /\ \E i \in 1..Len(a) : /\ DigitValue(a[i]) < DigitValue(b[i])
                               /\ \A j \in 1..(i - 1) : a[j] = b[j]

\* The binary digits of a natural, most significant first, and back.
BitsOf(v, width) == [i \in 1..width |-> (v \div (2 ^ (width - i))) % 2]

RECURSIVE BitsValue(_)
BitsValue(bits) == IF bits = <<>> THEN 0
                   ELSE 2 * BitsValue(SubSeq(bits, 1, Len(bits) - 1)) + bits[Len(bits)]

\* the bits of limbs, five at a time from the low end; the top five without
\* leading zeros
RECURSIVE ToBits(_)
ToBits(limbs) ==
    IF limbs = <<>> THEN <<>>
    ELSE LET q == Quotient(limbs, 2 ^ ChunkBits)
             v == limbs[Len(limbs)] % (2 ^ ChunkBits)
         IN  IF q # <<>> THEN ToBits(q) \o BitsOf(v, ChunkBits)
             ELSE BitsOf(v, CHOOSE w \in 1..ChunkBits : v < 2 ^ w /\ 2 ^ (w - 1) <= v)

\* the limbs of bits: high * 2^5 + v, v < 2^5, is the quotient by 5^5 of high
\* with the limb v * 5^5 appended
RECURSIVE FromBits(_)
FromBits(bits) ==
    LET n == IF Len(bits) < ChunkBits THEN Len(bits) ELSE ChunkBits
        high == FromBits(SubSeq(bits, 1, Len(bits) - n))
        v == BitsValue(SubSeq(bits, Len(bits) - n + 1, Len(bits)))
    IN  IF bits = <<>> THEN <<>>
        ELSE IF high = <<>> THEN (IF v = 0 THEN <<>> ELSE <<v>>)
        ELSE Quotient(high \o <<v * (5 ^ ChunkBits)>>, 5 ^ ChunkBits)

\* bits + 1, one bit longer when every bit is set
IncrementBits(bits) ==
    IF \A i \in 1..Len(bits) : bits[i] = 1 THEN <<1>> \o Rep(0, Len(bits))
    ELSE LET k == CHOOSE i \in 1..Len(bits) :
                      bits[i] = 0 /\ \A j \in (i + 1)..Len(bits) : bits[j] = 1
         IN  SubSeq(bits, 1, k - 1) \o <<1>> \o Rep(0, Len(bits) - k)

\* ---------------------------------------------------- IEEE 754 binary64
SignificandBits == 53
MaxBits == 1024

\* Round to a 53-bit significand, ties to even; sticky tells that the exact
\* value has a non-zero part below the last bit given.
RoundBits(bits, sticky) ==
    IF Len(bits) <= SignificandBits THEN bits
    ELSE LET top == SubSeq(bits, 1, SignificandBits)
             rest == SubSeq(bits, SignificandBits + 1, Len(bits))
             below == sticky \/ \E i \in 2..Len(rest) : rest[i] = 1
             up == rest[1] = 1 /\ (below \/ top[SignificandBits] = 1)
         IN  (IF up THEN IncrementBits(top) ELSE top) \o Rep(0, Len(rest))

InfinityChars == <<"I", "n", "f", "i", "n", "i", "t", "y">>

\* The double nearest to a natural that is not below the given bits and, when
\* sticky, is above them: its exact decimal digits, or Infinity from 2^1024.
Nearest(bits, sticky) ==
    IF Len(RoundBits(bits, sticky)) > MaxBits THEN InfinityChars
    ELSE Digits(FromBits(RoundBits(bits, sticky)))

\* The double nearest to a natural.  A natural of at most 15 digits is below
\* 2^53 and is its own double.
ToDouble(s) == IF Len(s) <= 15 THEN s ELSE Nearest(ToBits(Limbs(s)), FALSE)

\* A Number that holds an integer: NaN, or the sign and the magnitude, which
\* is InfinityChars or the exact decimal digits of the double (<<>> for zero).
NaN == [nan |-> TRUE, neg |-> FALSE, mag |-> <<>>]
Num(neg, mag) == [nan |-> FALSE, neg |-> neg, mag |-> mag]

\* Number.parseInt(string, 10)
ParseInt(str) ==
    LET S == TrimStart(str)
        neg == S # <<>> /\ Head(S) = "-"
        rest == IF S # <<>> /\ Head(S) \in {"+", "-"} THEN Tail(S) ELSE S
        Z == DigitPrefix(rest)
    IN  IF Z = <<>> THEN NaN ELSE Num(neg, ToDouble(StripLeadingZeros(Z)))

\* mutant: the comparison is x <= 1
LessThanOne_OrEqual(x) == ~x.nan /\ (x.neg \/ x.mag = <<>> \/ x.mag = <<"1">>)

\* x < 1 on Numbers: false for NaN, true for zero and negatives
LessThanOne(x) == ~x.nan /\ (x.neg \/ x.mag = <<>>)

\* x * 10000, rounded to the nearest double
Times10000(x) == IF x.nan \/ x.mag = <<>> \/ x.mag = InfinityChars THEN x
                 ELSE Num(x.neg, ToDouble(x.mag \o <<"0", "0", "0", "0">>))

\* The k-digit decimals next to D, k = 1, 2, ...: the first k for which one
\* of them has D as its nearest double gives the digits toString prints;
\* of two that do, the nearer one, and the even one on a tie.
RECURSIVE ShortestFrom(_, _)
ShortestFrom(D, k) ==
    LET n == Len(D)
        r == StripLeadingZeros(SubSeq(D, k + 1, n))
        unit == <<"1">> \o Rep("0", n - k)
        down == SubSeq(D, 1, k) \o Rep("0", n - k)
        up == Succ(SubSeq(D, 1, k)) \o Rep("0", n - k)
        twice == Digits(TimesPowerOfTwo(Limbs(r), 1))
    IN  IF k >= n \/ r = <<>> THEN D
        ELSE IF ToDouble(down) = D
        THEN (IF ToDouble(up) # D \/ Less(twice, unit) THEN down
              ELSE IF Less(unit, twice) THEN up
              ELSE IF DigitValue(D[k]) % 2 = 0 THEN down ELSE up)
        ELSE IF ToDouble(up) = D THEN up
        ELSE ShortestFrom(D, k + 1)

\* The shortest decimal that reads back as the double D, with its zeros.
ShortestDigits(D) == IF Len(D) <= 15 THEN D ELSE ShortestFrom(D, 1)

\* digits below 10^21 as they are, else the exponent form d.ddde+n
DecimalOrExponent(digits) ==
    LET n == Len(digits)
        m == StripTrailingZeros(digits)
    IN  IF n <= 21 THEN digits
        ELSE <<Head(m)>> \o (IF Len(m) > 1 THEN <<".">> \o Tail(m) ELSE <<>>)
                 \o <<"e", "+">> \o NatToStr(n - 1)

\* Number.prototype.toString()
NumberToString(x) ==
    IF x.nan THEN <<"N", "a", "N">>
    ELSE IF x.mag = <<>> THEN <<"0">>
    ELSE (IF x.neg THEN <<"-">> ELSE <<>>)
             \o (IF x.mag = InfinityChars THEN InfinityChars
                 ELSE DecimalOrExponent(ShortestDigits(x.mag)))

\* The number of hundredths nearest to the double nearest to A / 100, the
\* larger one on a tie, for A of b bits.  The quotient of A * 2^t by 100 has
\* at least 54 bits and is cut to 53, the remainder being sticky; its
\* hundredfold is scaled back by 2^t and rounded half up.
HundredthsOfQuotient(A, b) ==
    LET t == IF b >= 61 THEN 0 ELSE 61 - b
        N == Digits(TimesPowerOfTwo(Limbs(A), t))
        Q == SubSeq(N, 1, Len(N) - 2)
        R == SubSeq(N, Len(N) - 1, Len(N))
        P == Nearest(ToBits(Limbs(Q)), R # <<"0", "0">>) \o <<"0", "0">>
        half == Digits(DivPowerOfTwo(Limbs(P), t - 1))
    IN  IF t = 0 THEN P ELSE Digits(DivPowerOfTwo(Limbs(Succ(half)), 1))

\* toFixed(2) of a number of hundredths; Number.prototype.toString() of the
\* quotient from 10^21 on
ToFixed2(neg, hundredths) ==
    LET padded == IF Len(hundredths) < 3
                  THEN Rep("0", 3 - Len(hundredths)) \o hundredths
                  ELSE hundredths
        n == Len(padded)
    IN  IF n >= 24 THEN NumberToString(Num(neg, SubSeq(padded, 1, n - 2)))
        ELSE (IF neg /\ hundredths # <<>> THEN <<"-">> ELSE <<>>)
                 \o SubSeq(padded, 1, n - 2) \o <<".">> \o SubSeq(padded, n - 1, n)

\* (x / 100).toFixed(2).  For at most 15 digits the quotient's rounding error
\* is far below half a hundredth, and the hundredths are the digits of x.
DollarsToFixed2(x) ==
    IF x.nan THEN <<"N", "a", "N">>
    ELSE IF x.mag = InfinityChars
    THEN (IF x.neg THEN <<"-">> ELSE <<>>) \o InfinityChars
    ELSE ToFixed2(x.neg, IF Len(x.mag) <= 15 THEN x.mag
                         ELSE HundredthsOfQuotient(x.mag, Len(ToBits(Limbs(x.mag)))))

\* ------------------------------------------------------------- encodings
Undefined == "undefined"
Null == [null |-> TRUE]

\* JSON.stringify / JSON.parse, btoa / atob
PlainText(t) == [isJson |-> FALSE, raw |-> t, value |-> Null]
Stringify(v) == [isJson |-> TRUE, raw |-> "", value |-> v]
ParseThrows(text) == ~text.isJson
Parse(text) == text.value

NoHeader == [present |-> FALSE, empty |-> FALSE, isBase64 |-> FALSE, text |-> PlainText("")]
EmptyHeader == [present |-> TRUE, empty |-> TRUE, isBase64 |-> TRUE, text |-> PlainText("")]
RawHeader(t) == [present |-> TRUE, empty |-> FALSE, isBase64 |-> FALSE, text |-> PlainText(t)]
Btoa(text) == [present |-> TRUE, empty |-> FALSE, isBase64 |-> TRUE, text |-> text]

\* the number a hexadecimal numeral stands for
RECURSIVE HexValue(_)
HexValue(h) == IF h = "" THEN 0
               ELSE 16 * HexValue(SubSeq(h, 1, Len(h) - 1))
                    + (CHOOSE d \in 0..15 : SubSeq("0123456789ABCDEF", d + 1, d + 1)
                                                = SubSeq(h, Len(h), Len(h)))

\* btoa throws InvalidCharacterError on a code unit beyond U+00FF of the text
\* JSON.stringify hands it: stringify writes a lone surrogate (U+D800..U+DFFF)
\* and a control character as an ASCII escape, and every other character as
\* itself (one beyond U+FFFF as its two surrogates).  A character written as
\* itself is ASCII, a name "U+XXXX" gives the code point in hexadecimal.
BeyondLatin1(c) ==
    LET codePoint == IF Len(c) > 2 /\ SubSeq(c, 1, 2) = "U+"
                     THEN HexValue(SubSeq(c, 3, Len(c))) ELSE 0
    IN  codePoint > 255 /\ codePoint \notin 55296..57343
AtobThrows(h) == ~h.isBase64
Atob(h) == h.text

\* a || b on header values: null and "" are falsy
Or(a, b) == IF a.present /\ ~a.empty THEN a ELSE b

Falsy(h) == ~h.present \/ h.empty

Chars_DonationOf == <<"D", "o", "n", "a", "t", "i", "o", "n", " ", "o", "f", " ", "$">>
Chars_To == <<" ", "t", "o", " ">>

\* ------------------------------------------------------- static configuration
NETWORK_CONFIG ==
    [n \in {"base-sepolia", "base", "sepolia", "mainnet"} |->
        CASE n = "base-sepolia" ->
               [chainId |-> 84532, chainIdCAIP |-> "eip155:84532",
                asset |-> "0x036CbD53842c5426634e7929541eC2318f3dCF7e",
                name |-> "Base Sepolia", eip712 |-> [name |-> "USDC", version |-> "2"]]
          [] n = "base" ->
               [chainId |-> 8453, chainIdCAIP |-> "eip155:8453",
                asset |-> "0x833589fCD6eDb6E08f4c7C32D4f71b54bdA02913",
                name |-> "Base", eip712 |-> [name |-> "USD Coin", version |-> "2"]]
          [] n = "sepolia" ->
               [chainId |-> 11155111, chainIdCAIP |-> "eip155:11155111",
                asset |-> "0x1c7D4B196Cb0C7B01d743Fbc6116a902379C7238",
                name |-> "Sepolia", eip712 |-> [name |-> "USDC", version |-> "2"]]
          [] n = "mainnet" ->
               [chainId |-> 1, chainIdCAIP |-> "eip155:1",
                asset |-> "0xA0b86991c6218b36c1d19D4a2e9Eb0cE3606eB48",
                name |-> "Ethereum", eip712 |-> [name |-> "USD Coin", version |-> "2"]]]

\* Property names every object literal inherits from Object.prototype.
ObjectPrototypeKeys ==
    {"constructor", "toString", "toLocaleString", "valueOf", "hasOwnProperty",
     "isPrototypeOf", "propertyIsEnumerable", "__proto__", "__defineGetter__",
     "__defineSetter__", "__lookupGetter__", "__lookupSetter__"}

\* mutant: every configured network is given the profile of base
NetworkConfigGet_AlwaysBase(network) ==
    IF network \in DOMAIN NETWORK_CONFIG
    THEN [kind |-> "profile", cfg |-> NETWORK_CONFIG["base"]]
    ELSE IF network \in ObjectPrototypeKeys
    THEN [kind |-> "inherited", cfg |-> NETWORK_CONFIG["base"]]
    ELSE [kind |-> "undefined", cfg |-> NETWORK_CONFIG["base"]]

\* NETWORK_CONFIG[network]: an own profile, an inherited member, or undefined
NetworkConfigGet(network) ==
    IF network \in DOMAIN NETWORK_CONFIG
    THEN [kind |-> "profile", cfg |-> NETWORK_CONFIG[network]]
    ELSE IF network \in ObjectPrototypeKeys
    THEN [kind |-> "inherited", cfg |-> NETWORK_CONFIG["base"]]
    ELSE [kind |-> "undefined", cfg |-> NETWORK_CONFIG["base"]]

Truthy(lookup) == lookup.kind # "undefined"

\* ---------------------------------------------------------------- the URL
NoParam == [present |-> FALSE, value |-> <<>>]
Param(v) == [present |-> TRUE, value |-> v]

\* mutant: the default amount is one cent
AmountOrDefault_One(url) ==
    IF url.amount.present /\ url.amount.value # <<>> THEN url.amount.value
    ELSE <<"1">>

\* url.searchParams.get("amount") || "100"
AmountOrDefault(url) ==
    IF url.amount.present /\ url.amount.value # <<>> THEN url.amount.value
    ELSE <<"1", "0", "0">>

\* ------------------------------------------------------ requirement builder
Returned(v) == [threw |-> FALSE, error |-> "", value |-> v]
Thrown(e) == [threw |-> TRUE, error |-> e, value |-> <<>>]

buildPaymentRequirements(recipient, network, amountCents, resourceUrl) ==
    LET networkConfig == NetworkConfigGet(network)
        amountInUsdcUnits == NumberToString(Times10000(amountCents))
        priceInDollars == DollarsToFixed2(amountCents)
    IN  IF ~Truthy(networkConfig) THEN Thrown("Unsupported network")
        ELSE IF networkConfig.kind = "inherited" THEN Thrown("TypeError")
        ELSE Returned(<<[scheme |-> "exact",
                         network |-> networkConfig.cfg.chainIdCAIP,
                         amount |-> amountInUsdcUnits,
                         resource |-> resourceUrl,
                         description |-> Chars_DonationOf \o priceInDollars
                                            \o Chars_To \o recipient,
                         mimeType |-> "application/json",
                         payTo |-> recipient,
                         maxTimeoutSeconds |-> 300,
                         asset |-> networkConfig.cfg.asset,
                         extra |-> [name |-> networkConfig.cfg.eip712.name,
                                    version |-> networkConfig.cfg.eip712.version]]>>)

\* ---------------------------------------------------------------- responses
NoResponse == [status |-> 0]

\* Response.json(body, {status})
ResponseJson(body, status) ==
    [status |-> status, body |-> body, paymentRequired |-> NoHeader, threw |-> FALSE]

\* An exception that leaves the handler: the handler ends without returning a
\* Response (no status, as in NoResponse), its promise rejected with e.
Uncaught(e) ==
    [status |-> 0, body |-> [unhandled |-> e], paymentRequired |-> NoHeader, threw |-> TRUE]

\* btoa(JSON.stringify(paymentRequired)) throws when a string of a requirement
\* holds a character beyond U+00FF that stringify does not escape: the
\* recipient is the only text of the
\* object that is not ASCII by construction.
BtoaThrows(paymentRequirements) ==
    \E accepts \in {paymentRequirements} :
        \E i \in 1..Len(accepts) :
            \/ \E j \in 1..Len(accepts[i].payTo) : BeyondLatin1(accepts[i].payTo[j])
            \/ \E j \in 1..Len(accepts[i].description) :
                   BeyondLatin1(accepts[i].description[j])

\* No caller catches what this function throws.
createPaymentRequiredResponse(paymentRequirements) ==
    LET paymentRequired == [x402Version |-> 2,
                            accepts |-> paymentRequirements,
                            error |-> "Payment Required"]
        encodedPaymentRequired == Btoa(Stringify(paymentRequired))
    IN  IF BtoaThrows(paymentRequirements) THEN Uncaught("InvalidCharacterError")
        ELSE [status |-> 402, body |-> [error |-> "Payment Required"],
              paymentRequired |-> encodedPaymentRequired, threw |-> FALSE]

\* the regular expression /^0x[a-fA-F0-9]{40}$/
RecipientPatternTest(recipient) ==
    /\ Len(recipient) = 42
    /\ recipient[1] = "0"
    /\ recipient[2] = "x"
    /\ \A i \in 3..42 : IsHex(recipient[i])

\* request.headers.get(name), case-insensitive in the header name
HeadersGet(req, name) ==
    IF name \in {"PAYMENT-SIGNATURE", "payment-signature"} THEN req.paymentSignature
    ELSE IF name \in {"X-PAYMENT", "x-payment"} THEN req.xPayment
    ELSE NoHeader

\* getServerEnv(): only FACILITATOR_URL is returned
getServerEnv(env) ==
    [FACILITATOR_URL |-> IF env.FACILITATOR_URL = Undefined
                         THEN "https://x402.org/facilitator"
                         ELSE env.FACILITATOR_URL,
     FACILITATOR_API_KEY |-> Undefined]

\* ------------------------------------------------------------ input domains
Reqs == 1..NumReqs

ValidRecipient == <<"0", "x">> \o Rep("a", 20) \o Rep("F", 10) \o Rep("9", 10)
NonHexRecipient == <<"0", "x">> \o Rep("Z", 40)
ShortRecipient == <<"0", "x">> \o Rep("a", 39)
WideRecipient == <<"U+2615">>
Recipients == {ValidRecipient, NonHexRecipient, ShortRecipient, WideRecipient}

Networks == {"base", "sepolia", "unknown-network", "constructor"}

TenTo17 == <<"1">> \o Rep("0", 17)
AmountParams == {NoParam, Param(<<>>), Param(<<"0">>), Param(<<"1">>),
                 Param(<<"3", "0", "0">>), Param(<<"-", "5">>),
                 Param(<<"a", "b", "c">>), Param(TenTo17)}

Payload1 == [x402Version |-> 2, signature |-> "0xsigA"]
Payload2 == [x402Version |-> 2, signature |-> "0xsigB"]

PaymentSignatureValues == {NoHeader, EmptyHeader, RawHeader("%not-base64%"),
                           Btoa(PlainText("not json")), Btoa(Stringify(Payload1))}
XPaymentValues == {NoHeader, EmptyHeader, RawHeader("%not-base64%"), Btoa(Stringify(Null)),
                   Btoa(Stringify(Payload2))}

Url(origin, recipient, network, amount) ==
    [origin |-> origin, recipient |-> recipient, network |-> network, amount |-> amount]

Requests ==
    [method : {"GET", "POST"},
     url : {Url("https://donate.example", rc, n, a) :
               rc \in Recipients, n \in Networks, a \in AmountParams},
     paymentSignature : PaymentSignatureValues,
     xPayment : XPaymentValues]

\* the router's params: the recipient and network segments of the path
Params(req) == [recipient |-> req.url.recipient, network |-> req.url.network]

ProcessEnvs == {[FACILITATOR_URL |-> Undefined, FACILITATOR_API_KEY |-> Undefined],
                [FACILITATOR_URL |-> "https://facilitator.example",
                 FACILITATOR_API_KEY |-> "secret-key"]}

\* What the facilitator may answer to one call.
Reasons == {Undefined, "expired", "insufficient_funds"}
Transactions == {Undefined, "0xabc123"}

\* JSON bodies: null, an accepting result, or a refusing one (flag false or
\* missing) with any reason.
VerifyResults ==
    {Null} \cup {[isValid |-> "true", invalidReason |-> Undefined]}
           \cup [isValid : {"false", Undefined}, invalidReason : Reasons]
SettleResults ==
    {Null} \cup [success : {"true"}, errorReason : {Undefined}, transaction : Transactions]
           \cup [success : {"false", Undefined}, errorReason : Reasons,
                 transaction : {Undefined}]

Body(text) == [readable |-> TRUE, text |-> text]
BrokenBody == [readable |-> FALSE, text |-> PlainText("")]

FetchRejected == [rejected |-> TRUE, status |-> 0, body |-> BrokenBody]
FetchResolved(status, body) == [rejected |-> FALSE, status |-> status, body |-> body]
NotCalled == [called |-> FALSE]

Statuses == {200, 500}
\* Response.ok
Ok(resp) == resp.status >= 200 /\ resp.status <= 299

FacilitatorAnswers(results) ==
    {FetchRejected} \cup
    {FetchResolved(st, b) : st \in Statuses,
        b \in {BrokenBody, Body(PlainText("upstream error"))}
                 \cup {Body(Stringify(v)) : v \in results}}

VerifyAnswers == FacilitatorAnswers(VerifyResults)
SettleAnswers == FacilitatorAnswers(SettleResults)

\* truthiness of a flag of a facilitator result
IsTrue(flag) == flag = "true"

\* -------------------------------------------------------------------- state
\* ------------------------------------------------ the donation page (client)
\* React state: error and txHash are a string or null
\* a message: a text, followed by the digits of a number when one is appended
Text(t) == [text |-> t, digits |-> <<>>]
NoMessage == [isNull |-> TRUE, text |-> Text("")]
Message(m) == [isNull |-> FALSE, text |-> m]
NoHash == [isNull |-> TRUE, value |-> ""]
Hash(v) == [isNull |-> FALSE, value |-> v]

\* a thrown value: an Error with its message, or something that is no Error
ErrorValue(m) == [isError |-> TRUE, message |-> m]
NonErrorValue == [isError |-> FALSE, message |-> Text("")]

\* what fetchWithPay (or switchChainAsync) settles with
NoAnswer == [settled |-> FALSE]
Rejects(err) == [settled |-> TRUE, rejected |-> TRUE, thrown |-> err,
                 status |-> 0, body |-> BrokenBody]
Resolves(status, body) == [settled |-> TRUE, rejected |-> FALSE, thrown |-> NonErrorValue,
                           status |-> status, body |-> body]

ThrownValues == {ErrorValue(Text("User rejected the request")), ErrorValue(Text("")),
                 NonErrorValue}
ClientResults == [success : {"true", "false", Undefined},
                  error : {Undefined, "", "Invalid payment"},
                  txHash : {Undefined, "0xabc123"}]
ClientAnswers ==
    {Rejects(e) : e \in ThrownValues} \cup
    {Resolves(st, b) : st \in {200, 400, 402, 500},
        b \in {BrokenBody, Body(PlainText("upstream error")), Body(Stringify(Null))}
                 \cup {Body(Stringify(v)) : v \in ClientResults}}

\* useState initial values, and a wallet that is not connected
InitialClient ==
    [at |-> "idle", status |-> "idle", error |-> NoMessage, txHash |-> NoHash,
     isConnected |-> FALSE, walletReady |-> FALSE, chainMatches |-> FALSE,
     requested |-> FALSE, answer |-> NoAnswer]

\* {}: the value of response.json().catch(() => ({}))
EmptyObject == [success |-> Undefined, error |-> Undefined, txHash |-> Undefined]
\* `Payment failed: ${response.status}`
PaymentFailedStatus(status) == [text |-> "Payment failed: ", digits |-> NatToStr(status)]

Throw(err) == [threw |-> TRUE, err |-> err, txHash |-> NoHash]
Succeed(txHash) == [threw |-> FALSE, err |-> NonErrorValue, txHash |-> Hash(txHash)]
JsonReadable(body) == body.readable /\ ~ParseThrows(body.text)

\* response.json() rejects: with the error of the body stream when the body
\* cannot be read, with a SyntaxError when it is not JSON
JsonRejection(body) == IF ~body.readable THEN ErrorValue(Text("TypeError"))
                       ELSE ErrorValue(Text("SyntaxError"))

\* a || b on a member of a parsed body: undefined and "" are falsy
OrText(a, b) == IF a \in {Undefined, ""} THEN b ELSE Text(a)

\* mutant: the body is read without looking at response.ok
AfterFetch_IgnoresOk(answer) ==
    IF answer.rejected THEN Throw(answer.thrown)
    ELSE IF ~JsonReadable(answer.body) THEN Throw(JsonRejection(answer.body))
    ELSE IF Parse(answer.body.text) = Null THEN Throw(ErrorValue(Text("TypeError")))
    ELSE IF IsTrue(Parse(answer.body.text).success)
    THEN Succeed(Parse(answer.body.text).txHash)
    ELSE Throw(ErrorValue(OrText(Parse(answer.body.text).error, Text("Payment failed"))))

\* handleDonation from the settling of fetchWithPay to the end of the try block
AfterFetch(answer) ==
    IF answer.rejected THEN Throw(answer.thrown)
    ELSE IF ~Ok(answer)
    THEN LET errorData == IF JsonReadable(answer.body)
                          THEN Parse(answer.body.text) ELSE EmptyObject
         IN  IF errorData = Null THEN Throw(ErrorValue(Text("TypeError")))
             ELSE Throw(ErrorValue(OrText(errorData.error,
                                          PaymentFailedStatus(answer.status))))
    ELSE IF ~JsonReadable(answer.body) THEN Throw(JsonRejection(answer.body))
    ELSE IF Parse(answer.body.text) = Null THEN Throw(ErrorValue(Text("TypeError")))
    ELSE IF IsTrue(Parse(answer.body.text).success)
    THEN Succeed(Parse(answer.body.text).txHash)
    ELSE Throw(ErrorValue(OrText(Parse(answer.body.text).error, Text("Payment failed"))))

\* catch (err): the message shown
CaughtMessage(err) == Message(IF err.isError THEN err.message ELSE Text("Payment failed"))

VARIABLES
    processEnv,          \* process.env of the server
    pc,                  \* per slot: position of the handler
    request,             \* per slot: the request being handled
    paymentPayload,      \* per slot: the handler's decoded payload
    paymentRequirements, \* per slot: the handler's requirement list
    calls,               \* per slot: the facilitator calls made, in order
    verifyResponse,      \* per slot: the facilitator's answer to /verify
    settleResponse,      \* per slot: the facilitator's answer to /settle
    response,            \* per slot: the HTTP response returned
    lastBuild,           \* the last direct call of the requirement builder
    client               \* the donation page: wallet, payment state, position

vars == <<processEnv, pc, request, paymentPayload, paymentRequirements, calls,
          verifyResponse, settleResponse, response, lastBuild, client>>

NoRequest == [method |-> "NONE"]
NotBuilt == [called |-> FALSE]

Init ==
    /\ processEnv \in ProcessEnvs
    /\ pc = [r \in Reqs |-> "idle"]
    /\ request = [r \in Reqs |-> NoRequest]
    /\ paymentPayload = [r \in Reqs |-> Null]
    /\ paymentRequirements = [r \in Reqs |-> <<>>]
    /\ calls = [r \in Reqs |-> <<>>]
    /\ verifyResponse = [r \in Reqs |-> NotCalled]
    /\ settleResponse = [r \in Reqs |-> NotCalled]
    /\ response = [r \in Reqs |-> NoResponse]
    /\ lastBuild = NotBuilt
    /\ client = InitialClient

\* One of the requests arrives in a free slot.
Receive(r, requests) ==
    /\ pc[r] = "idle"
    /\ pc' = [pc EXCEPT ![r] = "received"]
    /\ \E req \in requests : request' = [request EXCEPT ![r] = req]
    /\ UNCHANGED <<processEnv, paymentPayload, paymentRequirements, calls,
                   verifyResponse, settleResponse, response>>
    /\ UNCHANGED <<lastBuild, client>>

\* The handler returns (or throws): the request is answered.
Respond(r, resp) ==
    /\ pc' = [pc EXCEPT ![r] = "responded"]
    /\ response' = [response EXCEPT ![r] = resp]

AmountCents(req) == ParseInt(AmountOrDefault(req.url))

\* GET handler: the response returned
GetResponse(req) ==
    IF ~RecipientPatternTest(Params(req).recipient)
    THEN ResponseJson([error |-> "Invalid recipient address"], 400)
    ELSE IF ~Truthy(NetworkConfigGet(Params(req).network))
    THEN ResponseJson([error |-> "Unsupported network"], 400)
    ELSE IF LessThanOne(AmountCents(req))
    THEN ResponseJson([error |-> "Invalid amount"], 400)
    ELSE LET built == buildPaymentRequirements(Params(req).recipient, Params(req).network,
                                               AmountCents(req), req.url)
         IN  IF built.threw THEN Uncaught(built.error)
             ELSE createPaymentRequiredResponse(built.value)

GET(r) ==
    /\ pc[r] = "received"
    /\ request[r].method = "GET"
    /\ Respond(r, GetResponse(request[r]))
    /\ UNCHANGED <<processEnv, request, paymentPayload, paymentRequirements, calls,
                   verifyResponse, settleResponse>>
    /\ UNCHANGED <<lastBuild, client>>

\* catch (err): every exception thrown inside the try block
CatchResponse == ResponseJson([error |-> "Payment processing failed"], 500)

\* the handler has not returned: it goes on to the next facilitator call
Proceed == NoResponse

\* the headers object of both facilitator calls
FacilitatorHeaders(FACILITATOR_API_KEY) ==
    IF FACILITATOR_API_KEY \notin {Undefined, ""}
    THEN [contentType |-> "application/json", xApiKey |-> FACILITATOR_API_KEY]
    ELSE [contentType |-> "application/json", xApiKey |-> Undefined]

\* mutant: the /settle body is assembled without the decoded payload
Fetch_SettleDropsPayload(env, path, payload, requirements) ==
    [url |-> <<getServerEnv(env).FACILITATOR_URL, path>>,
     method |-> "POST",
     headers |-> FacilitatorHeaders(getServerEnv(env).FACILITATOR_API_KEY),
     body |-> Stringify([x402Version |-> 2,
                         paymentPayload |-> IF path = "/settle" THEN Null ELSE payload,
                         paymentRequirements |-> requirements[1]])]

\* fetch(`${FACILITATOR_URL}${path}`, {method: "POST", headers, body})
Fetch(env, path, payload, requirements) ==
    [url |-> <<getServerEnv(env).FACILITATOR_URL, path>>,
     method |-> "POST",
     headers |-> FacilitatorHeaders(getServerEnv(env).FACILITATOR_API_KEY),
     body |-> Stringify([x402Version |-> 2,
                         paymentPayload |-> payload,
                         paymentRequirements |-> requirements[1]])]

\* mutant: the legacy header is looked up first
PaymentHeader_LegacyFirst(req) ==
    Or(Or(Or(HeadersGet(req, "X-PAYMENT"), HeadersGet(req, "x-payment")),
          HeadersGet(req, "PAYMENT-SIGNATURE")),
       HeadersGet(req, "payment-signature"))

\* the payment header POST selects
PaymentHeader(req) ==
    Or(Or(Or(HeadersGet(req, "PAYMENT-SIGNATURE"), HeadersGet(req, "payment-signature")),
          HeadersGet(req, "X-PAYMENT")),
       HeadersGet(req, "x-payment"))

\* mutant: the header is used without being validated
DecodeThrows_Never(paymentHeader) == FALSE

\* JSON.parse(atob(paymentHeader))
DecodeThrows(paymentHeader) == AtobThrows(paymentHeader) \/ ParseThrows(Atob(paymentHeader))
Decode(paymentHeader) == Parse(Atob(paymentHeader))

\* mutant: POST forgets the amount of the query string
PostRequirements_DefaultAmount(req) ==
    buildPaymentRequirements(Params(req).recipient, Params(req).network,
                             ParseInt(<<"1", "0", "0">>), req.url)

\* the requirement list POST builds, on the challenge and on the redemption path
PostRequirements(req) ==
    buildPaymentRequirements(Params(req).recipient, Params(req).network,
                             AmountCents(req), req.url)

\* mutant: POST checks the amount as GET does
PostBeforeVerify_ChecksAmount(req) ==
    IF ~Truthy(NetworkConfigGet(Params(req).network))
    THEN ResponseJson([error |-> "Unsupported network"], 400)
    ELSE IF LessThanOne(AmountCents(req))
    THEN ResponseJson([error |-> "Invalid amount"], 400)
    ELSE IF Falsy(PaymentHeader(req))
    THEN IF PostRequirements(req).threw THEN Uncaught(PostRequirements(req).error)
         ELSE createPaymentRequiredResponse(PostRequirements(req).value)
    ELSE IF DecodeThrows(PaymentHeader(req)) THEN CatchResponse
    ELSE IF PostRequirements(req).threw THEN CatchResponse
    ELSE Proceed

\* POST before the /verify fetch: the response returned, or Proceed
PostBeforeVerify(req) ==
    IF ~Truthy(NetworkConfigGet(Params(req).network))
    THEN ResponseJson([error |-> "Unsupported network"], 400)
    ELSE IF Falsy(PaymentHeader(req))
    THEN IF PostRequirements(req).threw THEN Uncaught(PostRequirements(req).error)
         ELSE createPaymentRequiredResponse(PostRequirements(req).value)
    ELSE IF DecodeThrows(PaymentHeader(req)) THEN CatchResponse
    ELSE IF PostRequirements(req).threw THEN CatchResponse
    ELSE Proceed

\* mutant: a non-2xx verify answer reported as a server error
VerificationFailedResponse_500(errorText) ==
    ResponseJson([error |-> "Payment verification failed", details |-> errorText], 500)

VerificationFailedResponse(errorText) ==
    ResponseJson([error |-> "Payment verification failed", details |-> errorText], 400)

\* mutant: the reason is read from a field the result does not have
InvalidPaymentResponse_NoReason(verifyResult) ==
    ResponseJson([error |-> "Invalid payment", reason |-> Undefined], 400)

InvalidPaymentResponse(verifyResult) ==
    ResponseJson([error |-> "Invalid payment", reason |-> verifyResult.invalidReason], 400)

\* mutant: the status of the verify response is not checked
PostAfterVerify_NoOkCheck(verifyAnswer) ==
    IF verifyAnswer.rejected THEN CatchResponse
    ELSE IF ~verifyAnswer.body.readable \/ ParseThrows(verifyAnswer.body.text)
    THEN CatchResponse
    ELSE IF Parse(verifyAnswer.body.text) = Null THEN CatchResponse
    ELSE IF ~IsTrue(Parse(verifyAnswer.body.text).isValid)
    THEN InvalidPaymentResponse(Parse(verifyAnswer.body.text))
    ELSE Proceed

\* POST between the answer to /verify and the /settle fetch
PostAfterVerify(verifyAnswer) ==
    IF verifyAnswer.rejected THEN CatchResponse
    ELSE IF ~Ok(verifyAnswer)
    THEN IF ~verifyAnswer.body.readable THEN CatchResponse
         ELSE VerificationFailedResponse(verifyAnswer.body.text)
    ELSE IF ~verifyAnswer.body.readable \/ ParseThrows(verifyAnswer.body.text)
    THEN CatchResponse
    ELSE IF Parse(verifyAnswer.body.text) = Null THEN CatchResponse
    ELSE IF ~IsTrue(Parse(verifyAnswer.body.text).isValid)
    THEN InvalidPaymentResponse(Parse(verifyAnswer.body.text))
    ELSE Proceed

\* mutant: a non-2xx settle answer reported with the message of the catch block
SettlementTransportResponse_Generic(errorText) ==
    ResponseJson([error |-> "Payment processing failed", details |-> errorText], 500)

\* mutant: a non-2xx settle answer reported as a caller error
SettlementTransportResponse_400(errorText) ==
    ResponseJson([error |-> "Payment settlement failed", details |-> errorText], 400)

SettlementTransportResponse(errorText) ==
    ResponseJson([error |-> "Payment settlement failed", details |-> errorText], 500)

\* mutant: the reason is read from a field the result does not have
SettlementFailedResponse_NoReason(settleResult) ==
    ResponseJson([error |-> "Settlement failed", reason |-> Undefined], 500)

SettlementFailedResponse(settleResult) ==
    ResponseJson([error |-> "Settlement failed", reason |-> settleResult.errorReason], 500)

\* the message of the success body: its text, then the three characters
\* the source file holds after it
ThankYou == <<"Thank you for your donation! ", "U+00E2", "U+02DC", "U+2022">>

\* mutant: the hash is read from a field the result does not have
SuccessResponse_NoHash(recipient, network, settleResult) ==
    ResponseJson([success |-> TRUE,
                  message |-> ThankYou,
                  recipient |-> recipient,
                  network |-> network,
                  txHash |-> Undefined], 200)

SuccessResponse(recipient, network, settleResult) ==
    ResponseJson([success |-> TRUE,
                  message |-> ThankYou,
                  recipient |-> recipient,
                  network |-> network,
                  txHash |-> settleResult.transaction], 200)

\* POST after the answer to /settle
PostAfterSettle(req, settleAnswer) ==
    IF settleAnswer.rejected THEN CatchResponse
    ELSE IF ~Ok(settleAnswer)
    THEN IF ~settleAnswer.body.readable THEN CatchResponse
         ELSE SettlementTransportResponse(settleAnswer.body.text)
    ELSE IF ~settleAnswer.body.readable \/ ParseThrows(settleAnswer.body.text)
    THEN CatchResponse
    ELSE IF Parse(settleAnswer.body.text) = Null THEN CatchResponse
    ELSE IF ~IsTrue(Parse(settleAnswer.body.text).success)
    THEN SettlementFailedResponse(Parse(settleAnswer.body.text))
    ELSE SuccessResponse(Params(req).recipient, Params(req).network,
                         Parse(settleAnswer.body.text))

\* mutant: a payload another request has already presented is refused
POST_Deduplicates(r) ==
    /\ pc[r] = "received"
    /\ request[r].method = "POST"
    /\ IF PostBeforeVerify(request[r]) # Proceed
       THEN /\ Respond(r, PostBeforeVerify(request[r]))
            /\ UNCHANGED <<paymentPayload, paymentRequirements, calls>>
       ELSE IF \E q \in Reqs : q # r /\ calls[q] # <<>>
                    /\ paymentPayload[q] = Decode(PaymentHeader(request[r]))
       THEN /\ Respond(r, ResponseJson([error |-> "Payment already presented"], 409))
            /\ UNCHANGED <<paymentPayload, paymentRequirements, calls>>
       ELSE /\ paymentPayload' = [paymentPayload EXCEPT
                                     ![r] = Decode(PaymentHeader(request[r]))]
            /\ paymentRequirements' = [paymentRequirements EXCEPT
                                          ![r] = PostRequirements(request[r]).value]
            /\ calls' = [calls EXCEPT ![r] = Append(@,
                  Fetch(processEnv, "/verify", Decode(PaymentHeader(request[r])),
                        PostRequirements(request[r]).value))]
            /\ pc' = [pc EXCEPT ![r] = "verifying"]
            /\ UNCHANGED response
    /\ UNCHANGED <<processEnv, request, verifyResponse, settleResponse>>
    /\ UNCHANGED <<lastBuild, client>>

\* POST handler, from its start to the first await (the /verify fetch) or return
POST(r) ==
    /\ pc[r] = "received"
    /\ request[r].method = "POST"
    /\ IF PostBeforeVerify(request[r]) # Proceed
       THEN /\ Respond(r, PostBeforeVerify(request[r]))
            /\ paymentPayload' = [paymentPayload EXCEPT ![r] =
                  IF /\ Truthy(NetworkConfigGet(Params(request[r]).network))
                     /\ ~Falsy(PaymentHeader(request[r]))
                     /\ ~DecodeThrows(PaymentHeader(request[r]))
                  THEN Decode(PaymentHeader(request[r])) ELSE @]
            /\ UNCHANGED <<paymentRequirements, calls>>
       ELSE /\ paymentPayload' = [paymentPayload EXCEPT
                                     ![r] = Decode(PaymentHeader(request[r]))]
            /\ paymentRequirements' = [paymentRequirements EXCEPT
                                          ![r] = PostRequirements(request[r]).value]
            /\ calls' = [calls EXCEPT ![r] = Append(@,
                  Fetch(processEnv, "/verify", Decode(PaymentHeader(request[r])),
                        PostRequirements(request[r]).value))]
            /\ pc' = [pc EXCEPT ![r] = "verifying"]
            /\ UNCHANGED response
    /\ UNCHANGED <<processEnv, request, verifyResponse, settleResponse>>
    /\ UNCHANGED <<lastBuild, client>>

\* A response whose status has arrived and whose body has not been read yet.
PendingBody == [readable |-> FALSE, text |-> PlainText("(pending)")]
StatusOnly(answer) == IF answer.rejected THEN answer
                      ELSE FetchResolved(answer.status, PendingBody)

\* mutant: a rejected /verify fetch is tried once more
POSTVerified_Retry(r, verifyAnswer) ==
    /\ pc[r] = "verifying"
    /\ verifyResponse' = [verifyResponse EXCEPT ![r] = StatusOnly(verifyAnswer)]
    /\ IF verifyAnswer.rejected /\ Len(calls[r]) < 2
       THEN /\ calls' = [calls EXCEPT ![r] = Append(@,
                  Fetch(processEnv, "/verify", paymentPayload[r],
                        paymentRequirements[r]))]
            /\ UNCHANGED <<pc, response>>
       ELSE IF verifyAnswer.rejected
       THEN /\ Respond(r, PostAfterVerify(verifyAnswer))
            /\ UNCHANGED calls
       ELSE /\ pc' = [pc EXCEPT ![r] = "verifyBody"]
            /\ UNCHANGED <<calls, response>>
    /\ UNCHANGED <<processEnv, request, paymentPayload, paymentRequirements,
                   settleResponse>>
    /\ UNCHANGED <<lastBuild, client>>

\* POST handler, from the settling of the /verify fetch to the await of the
\* body (verifyResponse.text() or verifyResponse.json()), or to the return
\* of the catch block
POSTVerified(r, verifyAnswer) ==
    /\ pc[r] = "verifying"
    /\ verifyResponse' = [verifyResponse EXCEPT ![r] = StatusOnly(verifyAnswer)]
    /\ IF verifyAnswer.rejected
       THEN Respond(r, PostAfterVerify(verifyAnswer))
       ELSE /\ pc' = [pc EXCEPT ![r] = "verifyBody"]
            /\ UNCHANGED response
    /\ UNCHANGED <<processEnv, request, paymentPayload, paymentRequirements, calls,
                   settleResponse>>
    /\ UNCHANGED <<lastBuild, client>>

\* mutant: the requirement list is kept in one place shared by all requests
POSTVerifyBody_SharedRequirements(r, verifyAnswer) ==
    /\ pc[r] = "verifyBody"
    /\ ~verifyAnswer.rejected
    /\ verifyAnswer.status = verifyResponse[r].status
    /\ verifyResponse' = [verifyResponse EXCEPT ![r] = verifyAnswer]
    /\ IF PostAfterVerify(verifyAnswer) # Proceed
       THEN /\ Respond(r, PostAfterVerify(verifyAnswer))
            /\ UNCHANGED calls
       ELSE /\ calls' = [calls EXCEPT ![r] = Append(@,
                  Fetch(processEnv, "/settle", paymentPayload[r],
                        IF paymentRequirements[1] # <<>>
                        THEN paymentRequirements[1] ELSE paymentRequirements[r]))]
            /\ pc' = [pc EXCEPT ![r] = "settling"]
            /\ UNCHANGED response
    /\ UNCHANGED <<processEnv, request, paymentPayload, paymentRequirements,
                   settleResponse>>
    /\ UNCHANGED <<lastBuild, client>>

\* POST handler, from the arrival of the body of the /verify response to the
\* /settle fetch or return
POSTVerifyBody(r, verifyAnswer) ==
    /\ pc[r] = "verifyBody"
    /\ ~verifyAnswer.rejected
    /\ verifyAnswer.status = verifyResponse[r].status
    /\ verifyResponse' = [verifyResponse EXCEPT ![r] = verifyAnswer]
    /\ IF PostAfterVerify(verifyAnswer) # Proceed
       THEN /\ Respond(r, PostAfterVerify(verifyAnswer))
            /\ UNCHANGED calls
       ELSE /\ calls' = [calls EXCEPT ![r] = Append(@,
                  Fetch(processEnv, "/settle", paymentPayload[r],
                        paymentRequirements[r]))]
            /\ pc' = [pc EXCEPT ![r] = "settling"]
            /\ UNCHANGED response
    /\ UNCHANGED <<processEnv, request, paymentPayload, paymentRequirements,
                   settleResponse>>
    /\ UNCHANGED <<lastBuild, client>>

\* POST handler, from the settling of the /settle fetch to the await of the
\* body (settleResponse.text() or settleResponse.json()), or to the return
\* of the catch block
POSTSettled(r, settleAnswer) ==
    /\ pc[r] = "settling"
    /\ settleResponse' = [settleResponse EXCEPT ![r] = StatusOnly(settleAnswer)]
    /\ IF settleAnswer.rejected
       THEN Respond(r, PostAfterSettle(request[r], settleAnswer))
       ELSE /\ pc' = [pc EXCEPT ![r] = "settleBody"]
            /\ UNCHANGED response
    /\ UNCHANGED <<processEnv, request, paymentPayload, paymentRequirements, calls,
                   verifyResponse>>
    /\ UNCHANGED <<lastBuild, client>>

\* POST handler, from the arrival of the body of the /settle response to its
\* return
POSTSettleBody(r, settleAnswer) ==
    /\ pc[r] = "settleBody"
    /\ ~settleAnswer.rejected
    /\ settleAnswer.status = settleResponse[r].status
    /\ settleResponse' = [settleResponse EXCEPT ![r] = settleAnswer]
    /\ Respond(r, PostAfterSettle(request[r], settleAnswer))
    /\ UNCHANGED <<processEnv, request, paymentPayload, paymentRequirements, calls,
                   verifyResponse>>
    /\ UNCHANGED <<lastBuild, client>>

\* The response has been sent; the slot takes the next request.
Finish(r) ==
    /\ pc[r] = "responded"
    /\ pc' = [pc EXCEPT ![r] = "idle"]
    /\ request' = [request EXCEPT ![r] = NoRequest]
    /\ paymentPayload' = [paymentPayload EXCEPT ![r] = Null]
    /\ paymentRequirements' = [paymentRequirements EXCEPT ![r] = <<>>]
    /\ calls' = [calls EXCEPT ![r] = <<>>]
    /\ verifyResponse' = [verifyResponse EXCEPT ![r] = NotCalled]
    /\ settleResponse' = [settleResponse EXCEPT ![r] = NotCalled]
    /\ response' = [response EXCEPT ![r] = NoResponse]
    /\ UNCHANGED processEnv
    /\ UNCHANGED <<lastBuild, client>>

\* One request at a time, over the whole input domain.
Next ==
    \/ Receive(1, Requests)
    \/ GET(1)
    \/ POST(1)
    \/ \E a \in VerifyAnswers : POSTVerified(1, a)
    \/ \E a \in VerifyAnswers : POSTVerifyBody(1, a)
    \/ \E a \in SettleAnswers : POSTSettled(1, a)
    \/ \E a \in SettleAnswers : POSTSettleBody(1, a)
    \/ Finish(1)

Spec == Init /\ [][Next]_vars

\* Concurrent requests in every slot, over a narrow input domain.
ConcRequests ==
    [method : {"GET", "POST"},
     url : {Url("https://donate.example", ValidRecipient, "base", a) :
               a \in {NoParam, Param(<<"3", "0", "0">>)}},
     paymentSignature : {NoHeader, Btoa(Stringify(Payload1))},
     xPayment : {NoHeader}]

ConcVerifyAnswers ==
    {FetchRejected,
     FetchResolved(200, Body(Stringify([isValid |-> "true", invalidReason |-> Undefined]))),
     FetchResolved(200, Body(Stringify([isValid |-> "false", invalidReason |-> "expired"])))}

ConcSettleAnswers ==
    {FetchResolved(200, Body(Stringify([success |-> "true", errorReason |-> Undefined,
                                        transaction |-> "0xabc123"]))),
     FetchResolved(200, Body(Stringify([success |-> "false",
                                        errorReason |-> "insufficient_funds",
                                        transaction |-> Undefined])))}

NextConc ==
    \E r \in Reqs :
        \/ Receive(r, ConcRequests)
        \/ GET(r)
        \/ POST(r)
        \/ \E a \in ConcVerifyAnswers : POSTVerified(r, a)
        \/ \E a \in ConcVerifyAnswers : POSTVerifyBody(r, a)
        \/ \E a \in ConcSettleAnswers : POSTSettled(r, a)
        \/ \E a \in ConcSettleAnswers : POSTSettleBody(r, a)
        \/ Finish(r)

SpecConc == Init /\ [][NextConc]_vars

\* Two requests side by side, over the inputs that reach every failure branch.
PairSlots == {1, 2}
PairRequests ==
    [method : {"GET", "POST"},
     url : {Url("https://donate.example", rc, n, a) :
               rc \in {ValidRecipient, NonHexRecipient},
               n \in {"base", "unknown-network", "constructor"},
               a \in {NoParam, Param(<<"0">>)}},
     paymentSignature : {NoHeader, RawHeader("%not-base64%"), Btoa(Stringify(Payload1))},
     xPayment : {NoHeader}]

PairVerifyAnswers ==
    {FetchRejected,
     FetchResolved(500, Body(PlainText("upstream error"))),
     FetchResolved(500, BrokenBody),
     FetchResolved(200, Body(PlainText("upstream error"))),
     FetchResolved(200, Body(Stringify([isValid |-> "true", invalidReason |-> Undefined]))),
     FetchResolved(200, Body(Stringify([isValid |-> "false", invalidReason |-> "expired"])))}

PairSettleAnswers ==
    {FetchRejected,
     FetchResolved(500, Body(PlainText("upstream error"))),
     FetchResolved(500, BrokenBody),
     FetchResolved(200, Body(PlainText("upstream error"))),
     FetchResolved(200, Body(Stringify([success |-> "true", errorReason |-> Undefined,
                                        transaction |-> "0xabc123"]))),
     FetchResolved(200, Body(Stringify([success |-> "false",
                                        errorReason |-> "insufficient_funds",
                                        transaction |-> Undefined])))}

NextPair ==
    \E r \in PairSlots :
        \/ Receive(r, PairRequests)
        \/ GET(r)
        \/ POST(r)
        \/ \E a \in PairVerifyAnswers : POSTVerified(r, a)
        \/ \E a \in PairVerifyAnswers : POSTVerifyBody(r, a)
        \/ \E a \in PairSettleAnswers : POSTSettled(r, a)
        \/ \E a \in PairSettleAnswers : POSTSettleBody(r, a)
        \/ Finish(r)

SpecPair == Init /\ [][NextPair]_vars

\* One request at a time with the handler running on from each await and
\* every facilitator call eventually answered or failed.
LiveRequests ==
    [method : {"GET", "POST"},
     url : {Url("https://donate.example", rc, n, a) :
               rc \in {ValidRecipient, NonHexRecipient},
               n \in {"base", "unknown-network", "constructor"},
               a \in {NoParam, Param(<<"0">>)}},
     paymentSignature : {NoHeader, EmptyHeader, RawHeader("%not-base64%"),
                         Btoa(Stringify(Payload1))},
     xPayment : {NoHeader}]

NextLive ==
    \/ Receive(1, LiveRequests)
    \/ GET(1)
    \/ POST(1)
    \/ \E a \in PairVerifyAnswers : POSTVerified(1, a)
    \/ \E a \in PairVerifyAnswers : POSTVerifyBody(1, a)
    \/ \E a \in PairSettleAnswers : POSTSettled(1, a)
    \/ \E a \in PairSettleAnswers : POSTSettleBody(1, a)
    \/ Finish(1)

Fairness ==
    /\ WF_vars(GET(1))
    /\ WF_vars(POST(1))
    /\ WF_vars(\E a \in PairVerifyAnswers : POSTVerified(1, a))
    /\ WF_vars(\E a \in PairVerifyAnswers : POSTVerifyBody(1, a))
    /\ WF_vars(\E a \in PairSettleAnswers : POSTSettled(1, a))
    /\ WF_vars(\E a \in PairSettleAnswers : POSTSettleBody(1, a))

SpecLive == Init /\ [][NextLive]_vars /\ Fairness

\* The requirement builder applied directly, to arguments no handler passes.
BuildNetworks == Networks \cup {"base-sepolia", "mainnet", "toString"}
BuildUrls == {Url("https://donate.example", ValidRecipient, "base", NoParam),
              Url("https://other.example", NonHexRecipient, "sepolia", Param(<<"1">>))}

CallBuilder(recipient, network, amountCents, resourceUrl) ==
    /\ lastBuild' = [called |-> TRUE,
                 recipient |-> recipient,
                 network |-> network,
                 amountCents |-> amountCents,
                 resourceUrl |-> resourceUrl,
                 result |-> buildPaymentRequirements(recipient, network, amountCents,
                                                     resourceUrl)]
    /\ UNCHANGED <<processEnv, pc, request, paymentPayload, paymentRequirements, calls,
                   verifyResponse, settleResponse, response, client>>

NextBuild ==
    \E rc \in Recipients, n \in BuildNetworks, a \in AmountParams, u \in BuildUrls :
        CallBuilder(rc, n, ParseInt(AmountOrDefault(Url("", rc, n, a))), u)

SpecBuild == Init /\ [][NextBuild]_vars

\* ---------------------------------------------------- the client's actions
ServerVars == <<processEnv, pc, request, paymentPayload, paymentRequirements, calls,
                verifyResponse, settleResponse, response, lastBuild>>

\* useAccount / useWalletClient: the wallet connects, disconnects, changes chain
WalletEvent(isConnected, walletReady, chainMatches) ==
    /\ walletReady => isConnected
    /\ client' = [client EXCEPT !.isConnected = isConnected,
                                !.walletReady = walletReady,
                                !.chainMatches = chainMatches]
    /\ UNCHANGED ServerVars

\* useEffect: the "connecting" status is reset once the wallet is connected
ResetConnecting ==
    /\ client.isConnected
    /\ client.status = "connecting"
    /\ client' = [client EXCEPT !.status = "idle"]
    /\ UNCHANGED ServerVars

\* handleDonation, from its start to its first await or return
handleDonation ==
    /\ client.at = "idle"
    /\ client.status # "success"
    /\ client' =
          IF ~client.isConnected
          THEN [client EXCEPT !.error = NoMessage, !.requested = FALSE,
                              !.status = "connecting"]
          ELSE IF ~client.walletReady
          THEN [client EXCEPT !.requested = FALSE,
                              !.error = Message(Text("Wallet not ready. Please try again."))]
          ELSE IF ~client.chainMatches
          THEN [client EXCEPT !.error = NoMessage, !.requested = FALSE,
                              !.status = "switching-network", !.at = "switching"]
          ELSE [client EXCEPT !.error = NoMessage, !.requested = TRUE,
                              !.status = "processing", !.at = "requesting"]
    /\ UNCHANGED ServerVars

\* handleDonation, from the settling of switchChainAsync to the fetchWithPay call
SwitchChainSettled(outcome) ==
    /\ client.at = "switching"
    /\ client' =
          IF outcome.rejected
          THEN [client EXCEPT !.status = "error", !.error = CaughtMessage(outcome.thrown),
                              !.at = "idle"]
          ELSE [client EXCEPT !.requested = TRUE, !.status = "processing",
                              !.at = "requesting"]
    /\ UNCHANGED ServerVars

\* handleDonation, from the settling of fetchWithPay to the await of
\* response.json() (the status of the response is known, its body has not
\* arrived), or to the end of the catch block when fetchWithPay rejected
FetchWithPaySettled(answer) ==
    /\ client.at = "requesting"
    /\ client' =
          IF answer.rejected
          THEN [client EXCEPT !.status = "error",
                              !.error = CaughtMessage(AfterFetch(answer).err),
                              !.at = "idle", !.answer = answer]
          ELSE [client EXCEPT !.at = "readingBody",
                              !.answer = Resolves(answer.status, PendingBody)]
    /\ UNCHANGED ServerVars

\* handleDonation, from the settling of response.json() to its return
ResponseJsonSettled(answer) ==
    /\ client.at = "readingBody"
    /\ ~answer.rejected
    /\ answer.status = client.answer.status
    /\ client' =
          IF AfterFetch(answer).threw
          THEN [client EXCEPT !.status = "error",
                              !.error = CaughtMessage(AfterFetch(answer).err),
                              !.at = "idle", !.answer = answer]
          ELSE [client EXCEPT !.txHash = AfterFetch(answer).txHash,
                              !.status = "success",
                              !.at = "idle", !.answer = answer]
    /\ UNCHANGED ServerVars

\* resetPayment, the button of the success view
resetPayment ==
    /\ client.at = "idle"
    /\ client.status = "success"
    /\ client' = [client EXCEPT !.status = "idle", !.error = NoMessage, !.txHash = NoHash]
    /\ UNCHANGED ServerVars

NextClient ==
    \/ \E c, w, m \in BOOLEAN : WalletEvent(c, w, m)
    \/ ResetConnecting
    \/ handleDonation
    \/ resetPayment
    \/ \E o \in {Rejects(e) : e \in ThrownValues} \cup {Resolves(200, BrokenBody)} :
          SwitchChainSettled(o)
    \/ \E a \in ClientAnswers : FetchWithPaySettled(a)
    \/ \E a \in ClientAnswers : ResponseJsonSettled(a)

SpecClient == Init /\ [][NextClient]_vars

\* ------------------------------------------------------------------ claims
\* Vocabulary of the claims, read off the recorded state of one request.
Endpoint(call) == call.url[2]
VerifyCalled(r) == \E i \in 1..Len(calls[r]) : Endpoint(calls[r][i]) = "/verify"
SettleCalled(r) == \E i \in 1..Len(calls[r]) : Endpoint(calls[r][i]) = "/settle"
Answered(answer) == answer # NotCalled
Is2xx(answer) == Answered(answer) /\ ~answer.rejected /\ answer.status \in 200..299
HasResult(answer) ==
    /\ Is2xx(answer)
    /\ answer.body.readable
    /\ answer.body.text.isJson
    /\ answer.body.text.value # Null
ResultOf(answer) == answer.body.text.value
VerifyAccepted(r) ==
    HasResult(verifyResponse[r]) /\ ResultOf(verifyResponse[r]).isValid = "true"
SettleSucceeded(r) ==
    HasResult(settleResponse[r]) /\ ResultOf(settleResponse[r]).success = "true"
Responded(r) == pc[r] = "responded"
ConfiguredNetwork(r) == request[r].url.network \in DOMAIN NETWORK_CONFIG

\* C1: /settle is called only after /verify of the same request was called
\* and answered 2xx with isValid true; when verify was not called, failed,
\* answered non-2xx or isValid false, settle is not called.
C1_SettleOnlyAfterVerifyAccepted ==
    \A r \in Reqs :
        /\ SettleCalled(r) =>
              /\ VerifyAccepted(r)
              /\ \E i, j \in 1..Len(calls[r]) :
                    /\ i < j
                    /\ Endpoint(calls[r][i]) = "/verify"
                    /\ Endpoint(calls[r][j]) = "/settle"
              /\ Endpoint(calls[r][1]) = "/verify"
        /\ (~VerifyCalled(r) \/ ~VerifyAccepted(r)) => ~SettleCalled(r)

C1_Witness ==
    \E r \in Reqs : pc[r] = "settling" /\ SettleCalled(r) /\ VerifyAccepted(r)

\* What a request advertised in its 402 challenge, and what it sent to the
\* facilitator, decoded from the response header and from the call bodies.
Advertised(r) == Parse(Atob(response[r].paymentRequired)).accepts
SentRequirement(call) == Parse(call.body).paymentRequirements

\* C2: for the same recipient, network, amount and request URL, the requirement
\* a redeeming POST sends to the facilitator is the one a 402 challenge (GET, or
\* POST without header) advertises, and two challenges advertise the same.
C2_RedemptionMatchesChallenge ==
    \A r1, r2 \in Reqs :
        (/\ pc[r1] # "idle" /\ pc[r2] # "idle"
         /\ response[r1].status = 402
         /\ request[r1].url = request[r2].url) =>
            /\ \A i \in 1..Len(calls[r2]) :
                  <<SentRequirement(calls[r2][i])>> = Advertised(r1)
            /\ response[r2].status = 402 => Advertised(r2) = Advertised(r1)

C2_Witness ==
    \E r1, r2 \in Reqs :
        /\ r1 # r2
        /\ pc[r1] # "idle" /\ pc[r2] # "idle"
        /\ request[r1].method = "GET"
        /\ response[r1].status = 402
        /\ request[r2].url = request[r1].url
        /\ request[r1].url.amount = Param(<<"3", "0", "0">>)
        /\ SettleCalled(r2)

\* The cents a request asks for, when its amount is a positive integer in
\* plain decimal digits (the default 100 when the parameter is missing).
CentsText(req) == IF req.url.amount.present /\ req.url.amount.value # <<>>
                  THEN req.url.amount.value ELSE <<"1", "0", "0">>
IsPositiveInteger(text) ==
    /\ text # <<>>
    /\ \A i \in 1..Len(text) : IsDigit(text[i])
    /\ \E i \in 1..Len(text) : text[i] # "0"
\* the requirement a request built: advertised, or sent to the facilitator
BuiltRequirements(r) ==
    (IF response[r].status = 402 THEN {Advertised(r)[1]} ELSE {})
        \cup {SentRequirement(calls[r][i]) : i \in 1..Len(calls[r])}

\* C3: for every supported network and every integer amount of cents >= 1 the
\* requirement's amount is the decimal integer string of cents * 10000.
C3_AmountIsCentsTimes10000 ==
    \A r \in Reqs :
        (pc[r] # "idle" /\ IsPositiveInteger(CentsText(request[r]))) =>
            \A req \in BuiltRequirements(r) :
                req.amount = StripLeadingZeros(CentsText(request[r]))
                                 \o <<"0", "0", "0", "0">>

\* C4: verify accepted and settle succeeded: HTTP 200 with success true, the
\* path's recipient and network, and txHash the transaction settle returned.
C4_SuccessResponse ==
    \A r \in Reqs :
        (Responded(r) /\ VerifyAccepted(r) /\ SettleSucceeded(r)) =>
            /\ response[r].status = 200
            /\ response[r].body.success = TRUE
            /\ response[r].body.recipient = request[r].url.recipient
            /\ response[r].body.network = request[r].url.network
            /\ response[r].body.txHash = ResultOf(settleResponse[r]).transaction

C4_Witness ==
    \E r \in Reqs :
        /\ Responded(r) /\ VerifyAccepted(r) /\ SettleSucceeded(r)
        /\ ResultOf(settleResponse[r]).transaction = "0xabc123"
        /\ response[r].status = 200

\* C5: verify answered 2xx with isValid false and invalidReason r: HTTP 400
\* with body {error: "Invalid payment", reason: r}, for every r.
C5_InvalidPaymentResponse ==
    \A r \in Reqs :
        (/\ Responded(r)
         /\ HasResult(verifyResponse[r])
         /\ ResultOf(verifyResponse[r]).isValid = "false") =>
            /\ response[r].status = 400
            /\ response[r].body = [error |-> "Invalid payment",
                                   reason |-> ResultOf(verifyResponse[r]).invalidReason]

C5_Witness ==
    \E r \in Reqs :
        /\ Responded(r)
        /\ HasResult(verifyResponse[r])
        /\ ResultOf(verifyResponse[r]).isValid = "false"
        /\ ResultOf(verifyResponse[r]).invalidReason = "expired"

\* C6: verify accepted, settle answered 2xx with success false and errorReason
\* r: HTTP 500 with body {error: "Settlement failed", reason: r}, for every r.
C6_SettlementFailedResponse ==
    \A r \in Reqs :
        (/\ Responded(r)
         /\ VerifyAccepted(r)
         /\ HasResult(settleResponse[r])
         /\ ResultOf(settleResponse[r]).success = "false") =>
            /\ response[r].status = 500
            /\ response[r].body = [error |-> "Settlement failed",
                                   reason |-> ResultOf(settleResponse[r]).errorReason]

C6_Witness ==
    \E r \in Reqs :
        /\ Responded(r)
        /\ VerifyAccepted(r)
        /\ HasResult(settleResponse[r])
        /\ ResultOf(settleResponse[r]).success = "false"
        /\ ResultOf(settleResponse[r]).errorReason = "insufficient_funds"

\* A verify call that failed other than by an isValid-false answer.
VerifyTransportFailed(r) ==
    Answered(verifyResponse[r]) /\ verifyResponse[r].rejected
VerifyNon2xx(r) ==
    /\ Answered(verifyResponse[r])
    /\ ~verifyResponse[r].rejected
    /\ verifyResponse[r].status \notin 200..299

\* C7 as stated: every verify failure that is not an isValid-false answer, a
\* transport failure as well as a non-2xx response, ends the request with HTTP
\* 400 and without a settle call.
C7_VerifyFailureIs400 ==
    \A r \in Reqs :
        (Responded(r) /\ (VerifyTransportFailed(r) \/ VerifyNon2xx(r))) =>
            /\ response[r].status = 400
            /\ ~SettleCalled(r)

\* C7 amended: a non-2xx verify response whose body is read ends the request
\* with HTTP 400 "Payment verification failed"; a transport failure (the fetch
\* or the reading of the body throws) ends it with HTTP 500 "Payment processing
\* failed"; in neither case is settle called.
C7_VerifyFailureStatus ==
    \A r \in Reqs :
        (/\ Responded(r)
         /\ \/ VerifyTransportFailed(r)
            \/ VerifyNon2xx(r)
            \/ Is2xx(verifyResponse[r]) /\ ~HasResult(verifyResponse[r])) =>
            /\ ~SettleCalled(r)
            /\ (VerifyNon2xx(r) /\ verifyResponse[r].body.readable) =>
                  /\ response[r].status = 400
                  /\ response[r].body.error = "Payment verification failed"
            /\ (\/ VerifyTransportFailed(r)
                \/ ~verifyResponse[r].body.readable
                \/ Is2xx(verifyResponse[r])) =>
                  /\ response[r].status = 500
                  /\ response[r].body.error = "Payment processing failed"

C7_Witness ==
    \E r \in Reqs :
        /\ Responded(r)
        /\ VerifyTransportFailed(r)
        /\ response[r].status = 500

\* C8: every settle failure that is not a success-false answer, a transport
\* failure as well as a non-2xx response, ends the request with HTTP 500.
C8_SettleFailureIs500 ==
    \A r \in Reqs :
        (/\ Responded(r)
         /\ Answered(settleResponse[r])
         /\ (settleResponse[r].rejected \/ settleResponse[r].status \notin 200..299)) =>
            response[r].status = 500

C8_Witness ==
    \E r \in Reqs :
        /\ Responded(r)
        /\ Answered(settleResponse[r])
        /\ ~settleResponse[r].rejected
        /\ settleResponse[r].status = 500
        /\ settleResponse[r].body.readable

\* A header value that base64-decodes to the text of a JSON value.
Decodable(h) == h.isBase64 /\ h.text.isJson
\* the payment header by presence: PAYMENT-SIGNATURE, else X-PAYMENT
PresentHeader(req) ==
    IF req.paymentSignature.present THEN req.paymentSignature ELSE req.xPayment
\* the payment header by content: the first of the two that is not empty
NonEmptyHeader(req) ==
    IF req.paymentSignature.present /\ ~req.paymentSignature.empty
    THEN req.paymentSignature ELSE req.xPayment

\* C9 as stated: a POST on a configured network carrying a payment header
\* whose value cannot be base64-decoded and parsed as JSON is answered with
\* HTTP 500, and neither /verify nor /settle is called.
C9_MalformedHeaderIs500 ==
    \A r \in Reqs :
        (/\ Responded(r)
         /\ request[r].method = "POST"
         /\ ConfiguredNetwork(r)
         /\ PresentHeader(request[r]).present
         /\ ~Decodable(PresentHeader(request[r]))) =>
            /\ response[r].status = 500
            /\ calls[r] = <<>>

\* C9 amended: the same for a payment header whose value is not empty (an
\* empty PAYMENT-SIGNATURE counts as absent: X-PAYMENT is used in its place,
\* and the challenge is issued when that is absent or empty too).
C9_NonEmptyMalformedHeaderIs500 ==
    \A r \in Reqs :
        (/\ Responded(r)
         /\ request[r].method = "POST"
         /\ ConfiguredNetwork(r)
         /\ NonEmptyHeader(request[r]).present
         /\ ~NonEmptyHeader(request[r]).empty
         /\ ~Decodable(NonEmptyHeader(request[r]))) =>
            /\ response[r].status = 500
            /\ response[r].body.error = "Payment processing failed"
            /\ calls[r] = <<>>

C9_Witness ==
    \E r \in Reqs :
        /\ Responded(r)
        /\ request[r].method = "POST"
        /\ ConfiguredNetwork(r)
        /\ request[r].paymentSignature = Btoa(PlainText("not json"))
        /\ response[r].status = 500

\* The handler of a request ended with a response of status 402, 400, 500 or
\* 200; the status is 200 exactly when settle was called in the request and
\* reported success, and no call was made before a 402.
C10_Outcome ==
    \A r \in Reqs :
        Responded(r) =>
            /\ response[r].status \in {402, 400, 500, 200}
            /\ response[r].status = 200 <=> (SettleCalled(r) /\ SettleSucceeded(r))
            /\ response[r].status = 402 => calls[r] = <<>>
C10_Stands ==
    \A r \in Reqs :
        (Responded(r) /\ pc'[r] = "responded") =>
            (response'[r] = response[r] /\ calls'[r] = calls[r])
\* C10 as stated: every request ends in one terminal outcome, a 402 challenge,
\* a 400 or 500 failure or a 200 settled response, which then stands (no call
\* and no other response follows it); the response is 200 exactly when settle
\* was called in the request and reported success.
C10_OneTerminalOutcome == [](C10_Outcome) /\ [][C10_Stands]_vars

\* C11: within one request at most one /verify call and at most one /settle
\* call are made, in that order; no failure makes a call be repeated.
C11_AtMostOneCallEach ==
    \A r \in Reqs :
        /\ Len(calls[r]) <= 2
        /\ Len(calls[r]) >= 1 => Endpoint(calls[r][1]) = "/verify"
        /\ Len(calls[r]) = 2 => Endpoint(calls[r][2]) = "/settle"

C11_Witness ==
    \E r \in Reqs :
        /\ Responded(r)
        /\ Len(calls[r]) = 1
        /\ Answered(verifyResponse[r])
        /\ verifyResponse[r].rejected
        /\ response[r].status = 500

\* the same request sent with GET
AsGet(req) == [req EXCEPT !.method = "GET"]
NoPaymentHeader(req) == ~req.paymentSignature.present /\ ~req.xPayment.present

\* C12: a POST without payment header returns the 402 challenge a GET with
\* the same recipient, network, amount and URL returns (status, header and
\* body), and calls no facilitator endpoint.
C12_PostChallengeEqualsGet ==
    \A r \in Reqs :
        (/\ Responded(r)
         /\ request[r].method = "POST"
         /\ NoPaymentHeader(request[r])) =>
            /\ calls[r] = <<>>
            /\ GetResponse(AsGet(request[r])).status = 402 =>
                  response[r] = GetResponse(AsGet(request[r]))

C12_Witness ==
    \E r \in Reqs :
        /\ Responded(r)
        /\ request[r].method = "POST"
        /\ NoPaymentHeader(request[r])
        /\ request[r].url.amount = Param(<<"3", "0", "0">>)
        /\ request[r].url.network = "sepolia"
        /\ response[r].status = 402

\* C13: a GET with a valid recipient, a configured network and no amount
\* parameter uses 100 cents: HTTP 402 advertising amount "1000000".
C13_DefaultAmount ==
    \A r \in Reqs :
        (/\ Responded(r)
         /\ request[r].method = "GET"
         /\ request[r].url.recipient = ValidRecipient
         /\ ConfiguredNetwork(r)
         /\ ~request[r].url.amount.present) =>
            /\ response[r].status = 402
            /\ Advertised(r)[1].amount = <<"1", "0", "0", "0", "0", "0", "0">>

C13_Witness ==
    \E r \in Reqs :
        /\ Responded(r)
        /\ request[r].method = "GET"
        /\ request[r].url.recipient = ValidRecipient
        /\ ConfiguredNetwork(r)
        /\ ~request[r].url.amount.present
        /\ response[r].status = 402

\* the recipients that are not 0x followed by exactly 40 hex digits
InvalidRecipients == {NonHexRecipient, ShortRecipient, WideRecipient}

\* C14 as stated: for a recipient that is not 0x and 40 hex digits, GET returns 400
\* "Invalid recipient address" and advertises no requirement, whereas POST on
\* a configured network does not reject it: it issues the challenge or calls
\* /verify with that recipient as payTo.
C14_RecipientValidatedByGetOnly ==
    \A r \in Reqs :
        (pc[r] # "idle" /\ request[r].url.recipient \in InvalidRecipients) =>
            /\ (Responded(r) /\ request[r].method = "GET") =>
                  /\ response[r].status = 400
                  /\ response[r].body = [error |-> "Invalid recipient address"]
                  /\ ~response[r].paymentRequired.present
            /\ (request[r].method = "POST" /\ ConfiguredNetwork(r)) =>
                  /\ \A req \in BuiltRequirements(r) :
                        req.payTo = request[r].url.recipient
                  /\ (Responded(r) /\ Falsy(NonEmptyHeader(request[r]))) =>
                        response[r].status = 402
                  /\ (pc[r] # "received" /\ ~Falsy(NonEmptyHeader(request[r]))
                        /\ Decodable(NonEmptyHeader(request[r]))) =>
                        VerifyCalled(r)

\* C15 as stated: a GET with a valid recipient, a configured network and an
\* amount value that is not an integer >= 1 (zero, negative, not a number) is
\* answered with HTTP 400 "Invalid amount" and without a 402 challenge.
C15_InvalidAmountIs400 ==
    \A r \in Reqs :
        (/\ Responded(r)
         /\ request[r].method = "GET"
         /\ request[r].url.recipient = ValidRecipient
         /\ ConfiguredNetwork(r)
         /\ request[r].url.amount.present
         /\ request[r].url.amount.value # <<>>
         /\ ~IsPositiveInteger(request[r].url.amount.value)) =>
            /\ response[r].status = 400
            /\ response[r].body = [error |-> "Invalid amount"]
            /\ ~response[r].paymentRequired.present

\* C16 as stated: for a network that is not a key of the profile table, GET
\* (with a valid recipient) and POST are answered with HTTP 400 "Unsupported
\* network"; on POST the payment header is not decoded and no facilitator
\* endpoint is called, even when a payment header is present.
C16_UnconfiguredNetworkIs400 ==
    \A r \in Reqs :
        (/\ pc[r] # "idle"
         /\ ~ConfiguredNetwork(r)
         /\ request[r].method = "GET" => request[r].url.recipient = ValidRecipient) =>
            /\ calls[r] = <<>>
            /\ paymentPayload[r] = Null
            /\ Responded(r) =>
                  /\ response[r].status = 400
                  /\ response[r].body = [error |-> "Unsupported network"]

\* C17 as stated: buildPaymentRequirements called with a network that is not
\* a key of the profile table fails with "Unsupported network" and returns no
\* requirement, whatever the recipient, the amount and the URL.
C17_BuilderFailsUnsupportedNetwork ==
    (lastBuild.called /\ lastBuild.network \notin DOMAIN NETWORK_CONFIG) =>
        /\ lastBuild.result.threw
        /\ lastBuild.result.error = "Unsupported network"
        /\ lastBuild.result.value = <<>>

\* A header that carries a value, and a POST that has got past its checks.
Supplied(h) == h.present /\ ~h.empty
Processed(r) == pc[r] \in {"verifying", "verifyBody", "settling", "settleBody", "responded"}
\* Request r used the value of header h as its payment proof: no challenge;
\* when the value decodes, it is the payload of every facilitator call, and
\* when it does not, the request fails with 500 and without a call.
UsesProof(r, h) ==
    /\ response[r].status # 402
    /\ IF Decodable(h)
       THEN /\ VerifyCalled(r)
            /\ \A i \in 1..Len(calls[r]) :
                  Parse(calls[r][i].body).paymentPayload = Parse(Atob(h))
       ELSE /\ calls[r] = <<>>
            /\ Responded(r)
            /\ response[r].status = 500

\* C18 as stated: on POST, whenever a PAYMENT-SIGNATURE header is present its
\* value is the proof, whatever X-PAYMENT holds; the X-PAYMENT value is used
\* only when PAYMENT-SIGNATURE is absent; the challenge is issued only when
\* both are absent.
C18_PresentSignatureWins ==
    \A r \in Reqs :
        (Processed(r) /\ request[r].method = "POST" /\ ConfiguredNetwork(r)) =>
            /\ request[r].paymentSignature.present =>
                  UsesProof(r, request[r].paymentSignature)
            /\ (~request[r].paymentSignature.present /\ request[r].xPayment.present) =>
                  UsesProof(r, request[r].xPayment)
            /\ response[r].status = 402 =>
                  (~request[r].paymentSignature.present /\ ~request[r].xPayment.present)

\* C18 amended: the same order over headers that carry a non-empty value. A
\* non-empty PAYMENT-SIGNATURE is the proof, whatever X-PAYMENT holds; a
\* non-empty X-PAYMENT is the proof when PAYMENT-SIGNATURE is absent or empty;
\* the challenge is issued only when each of the two is absent or empty, and
\* no facilitator endpoint is called then.
C18_NonEmptySignatureWins ==
    \A r \in Reqs :
        (Processed(r) /\ request[r].method = "POST" /\ ConfiguredNetwork(r)) =>
            /\ Supplied(request[r].paymentSignature) =>
                  UsesProof(r, request[r].paymentSignature)
            /\ (~Supplied(request[r].paymentSignature) /\ Supplied(request[r].xPayment)) =>
                  UsesProof(r, request[r].xPayment)
            /\ response[r].status = 402 =>
                  (~Supplied(request[r].paymentSignature) /\ ~Supplied(request[r].xPayment))
            /\ (~Supplied(request[r].paymentSignature) /\ ~Supplied(request[r].xPayment)) =>
                  /\ calls[r] = <<>>
                  /\ response[r].status = 402 \/ response[r].threw

C18_Witness ==
    \E r \in Reqs :
        /\ Processed(r)
        /\ request[r].method = "POST"
        /\ ConfiguredNetwork(r)
        /\ request[r].paymentSignature = Btoa(Stringify(Payload1))
        /\ request[r].xPayment = Btoa(Stringify(Payload2))
        /\ VerifyCalled(r)
        /\ Parse(calls[r][1].body).paymentPayload = Payload1

\* C19: GET always issues a challenge. For a valid recipient, a configured
\* network and an amount that is a positive integer (or missing), GET returns
\* HTTP 402; GET never calls the facilitator and never returns 200, even when
\* the request carries a payment header.
C19_GetAlwaysChallenges ==
    \A r \in Reqs :
        (pc[r] # "idle" /\ request[r].method = "GET") =>
            /\ calls[r] = <<>>
            /\ verifyResponse[r] = NotCalled
            /\ settleResponse[r] = NotCalled
            /\ pc[r] \in {"received", "responded"}
            /\ Responded(r) =>
                  /\ response[r].status # 200
                  /\ (/\ request[r].url.recipient = ValidRecipient
                      /\ ConfiguredNetwork(r)
                      /\ IsPositiveInteger(CentsText(request[r]))) =>
                        response[r].status = 402

C19_Witness ==
    \E r \in Reqs :
        /\ Responded(r)
        /\ request[r].method = "GET"
        /\ request[r].paymentSignature = Btoa(Stringify(Payload1))
        /\ request[r].url.amount = Param(<<"1">>)
        /\ response[r].status = 402

\* The CAIP-2 identifier of each configured network: eip155 and its chain id.
Caip2Id(network) ==
    CASE network = "base-sepolia" -> "eip155:84532"
      [] network = "base" -> "eip155:8453"
      [] network = "sepolia" -> "eip155:11155111"
      [] network = "mainnet" -> "eip155:1"

\* C20: every 402 challenge has the body {error: "Payment Required"} and a
\* PAYMENT-REQUIRED header that encodes protocol version 2 and an accepts list
\* of exactly one requirement: scheme "exact", network the CAIP-2 id of the
\* requested network's profile, asset and extra from that same profile, payTo
\* and resource the request's recipient and URL.
C20_ChallengeShape ==
    \A r \in Reqs :
        (Responded(r) /\ response[r].status = 402) =>
            /\ response[r].body = [error |-> "Payment Required"]
            /\ Supplied(response[r].paymentRequired)
            /\ Decodable(response[r].paymentRequired)
            /\ Parse(Atob(response[r].paymentRequired)).x402Version = 2
            /\ Len(Advertised(r)) = 1
            /\ ConfiguredNetwork(r)
            /\ LET accepted == Advertised(r)[1]
                   profile == NETWORK_CONFIG[request[r].url.network]
               IN  /\ accepted.scheme = "exact"
                   /\ accepted.network = Caip2Id(request[r].url.network)
                   /\ accepted.network = profile.chainIdCAIP
                   /\ accepted.asset = profile.asset
                   /\ accepted.extra = [name |-> profile.eip712.name,
                                        version |-> profile.eip712.version]
                   /\ accepted.payTo = request[r].url.recipient
                   /\ accepted.resource = request[r].url

C20_Witness ==
    \E r \in Reqs :
        /\ Responded(r)
        /\ response[r].status = 402
        /\ request[r].url.network = "sepolia"
        /\ Advertised(r)[1].network = "eip155:11155111"
        /\ Advertised(r)[1].asset = "0x1c7D4B196Cb0C7B01d743Fbc6116a902379C7238"
        /\ Advertised(r)[1].extra = [name |-> "USDC", version |-> "2"]

\* the payload a facilitator call carries
SentPayload(call) == Parse(call.body).paymentPayload

\* C21: the payload decoded from the payment header is passed to the
\* facilitator unchanged, and within one request the /settle call carries the
\* same payload and the same requirement as the /verify call before it.
C21_PayloadPassedThrough ==
    \A r \in Reqs :
        /\ \A i \in 1..Len(calls[r]) :
              SentPayload(calls[r][i]) = Parse(Atob(NonEmptyHeader(request[r])))
        /\ Len(calls[r]) = 2 =>
              /\ SentPayload(calls[r][2]) = SentPayload(calls[r][1])
              /\ SentRequirement(calls[r][2]) = SentRequirement(calls[r][1])
              /\ calls[r][2].body = calls[r][1].body

C21_Witness ==
    \E r \in Reqs :
        /\ Len(calls[r]) = 2
        /\ Endpoint(calls[r][2]) = "/settle"
        /\ request[r].xPayment = Btoa(Stringify(Payload2))
        /\ SentPayload(calls[r][2]) = Payload2
        /\ request[r].url.amount = Param(<<"3", "0", "0">>)
        /\ SentRequirement(calls[r][2]).amount = <<"3", "0", "0", "0", "0", "0", "0">>

\* C22 as stated: when a facilitator API key is configured for the process,
\* every /verify and /settle call carries it in the X-API-KEY header; when
\* none is configured, no call carries the header.
C22_ApiKeyAttached ==
    \A r \in Reqs :
        \A i \in 1..Len(calls[r]) :
            calls[r][i].headers.xApiKey = processEnv.FACILITATOR_API_KEY

\* A request that ended in a failure, and the status and message it returned
\* (an exception that left the handler has no error body of the handler's).
Failed(r) == Responded(r) /\ (response[r].status \in {400, 500} \/ response[r].threw)
ErrorOf(r) == IF response[r].threw THEN "(unhandled exception)" ELSE response[r].body.error
Outcome(r) == <<response[r].status, ErrorOf(r)>>

\* The error kind of a failed request, by the first thing that went wrong.
FailureKind(r) ==
    IF request[r].method = "GET" /\ request[r].url.recipient # ValidRecipient
    THEN "InvalidRecipient"
    ELSE IF ~ConfiguredNetwork(r) THEN "UnsupportedNetwork"
    ELSE IF request[r].method = "GET" THEN "InvalidAmount"
    ELSE IF ~VerifyCalled(r) THEN "MalformedPayload"
    ELSE IF ~HasResult(verifyResponse[r]) THEN "VerificationTransportError"
    ELSE IF ~VerifyAccepted(r) THEN "InvalidPayment"
    ELSE IF ~HasResult(settleResponse[r]) THEN "SettlementTransportError"
    ELSE "SettlementFailed"

\* C23 as stated: the eight error kinds each map to one HTTP status and one
\* error body that no other kind produces, so that two failed requests return
\* the same status and message exactly when their failures are of one kind.
C23_OneOutcomePerKind ==
    \A r1, r2 \in PairSlots :
        (Failed(r1) /\ Failed(r2)) =>
            (FailureKind(r1) = FailureKind(r2) <=> Outcome(r1) = Outcome(r2))

\* An amount text that reads as zero or as a negative integer.
ZeroOrNegative(text) ==
    /\ text # <<>>
    /\ \/ \A i \in 1..Len(text) : text[i] = "0"
       \/ /\ Len(text) > 1
          /\ text[1] = "-"
          /\ \A i \in 2..Len(text) : IsDigit(text[i])

\* The branch of the handler a failed request left by: one of the explicit
\* returns, the catch block ("Thrown": an error thrown inside the try block,
\* whatever the phase), or no return at all ("Unhandled": an error thrown
\* outside the try block).
NonTwoxxRead(answer) ==
    Answered(answer) /\ ~answer.rejected /\ answer.status \notin 200..299
        /\ answer.body.readable
FailureBranch(r) ==
    IF FailureKind(r) = "UnsupportedNetwork"
           /\ request[r].url.network \in ObjectPrototypeKeys
    THEN IF request[r].method = "GET"
         THEN IF ZeroOrNegative(request[r].url.amount.value)
              THEN "InvalidAmount" ELSE "Unhandled"
         ELSE IF ~Supplied(NonEmptyHeader(request[r])) THEN "Unhandled" ELSE "Thrown"
    ELSE IF FailureKind(r) = "MalformedPayload" THEN "Thrown"
    ELSE IF FailureKind(r) = "VerificationTransportError"
    THEN IF NonTwoxxRead(verifyResponse[r]) THEN "VerificationTransportError" ELSE "Thrown"
    ELSE IF FailureKind(r) = "SettlementTransportError"
    THEN IF NonTwoxxRead(settleResponse[r]) THEN "SettlementTransportError" ELSE "Thrown"
    ELSE FailureKind(r)

\* C23 amended: each explicit failure return has a status and a message no
\* other branch produces, and is final (no call follows it); every error
\* thrown inside the try block, in whatever phase, gets the one response 500
\* "Payment processing failed". Two failed requests return the same status
\* and message exactly when they left by the same branch.
C23_OneOutcomePerBranch ==
    \A r1, r2 \in PairSlots :
        (Failed(r1) /\ Failed(r2)) =>
            /\ FailureBranch(r1) = FailureBranch(r2) <=> Outcome(r1) = Outcome(r2)
            /\ ErrorOf(r1) = ErrorOf(r2) => response[r1].status = response[r2].status
            /\ FailureBranch(r1) = "Thrown" =>
                  Outcome(r1) = <<500, "Payment processing failed">>
            /\ FailureBranch(r1) \in {"InvalidRecipient", "UnsupportedNetwork",
                                       "InvalidAmount", "MalformedPayload"} =>
                  calls[r1] = <<>>
            /\ FailureBranch(r1) \in {"VerificationTransportError", "InvalidPayment"} =>
                  ~SettleCalled(r1)

C23_Witness ==
    /\ Failed(1) /\ Failed(2)
    /\ FailureKind(1) = "VerificationTransportError"
    /\ FailureKind(2) = "VerificationTransportError"
    /\ Outcome(1) = <<400, "Payment verification failed">>
    /\ Outcome(2) = <<500, "Payment processing failed">>

\* Everything the handlers keep for one request.
SlotState(r) == <<pc[r], request[r], paymentPayload[r], paymentRequirements[r],
                  calls[r], verifyResponse[r], settleResponse[r], response[r]>>

\* Two requests at the same point with the same inputs and the same answers
\* of the facilitator have made the same calls and got the same response.
C24_Determined ==
    \A r1, r2 \in Reqs :
        (/\ pc[r1] # "idle"
         /\ pc[r1] = pc[r2]
         /\ request[r1] = request[r2]
         /\ verifyResponse[r1] = verifyResponse[r2]
         /\ settleResponse[r1] = settleResponse[r2]) =>
            /\ response[r1] = response[r2]
            /\ calls[r1] = calls[r2]
\* A step of one request changes nothing of any other request, and no step
\* changes the process configuration.
C24_Frame ==
    /\ processEnv' = processEnv
    /\ \A r1, r2 \in Reqs :
          (r1 # r2 /\ SlotState(r1)' # SlotState(r1)) => SlotState(r2)' = SlotState(r2)

\* C24: requests are handled independently. No handler writes state shared
\* between requests, so under every interleaving of concurrent GET and POST
\* requests the response and the facilitator calls of a request depend only
\* on its own inputs and on the facilitator's answers to its own calls.
C24_RequestsIndependent == [](C24_Determined) /\ [][C24_Frame]_vars

C24_Witness ==
    \E r1, r2 \in Reqs :
        /\ r1 # r2
        /\ pc[r1] = "responded" /\ pc[r2] = "responded"
        /\ request[r1] = request[r2]
        /\ request[r1].url.amount = Param(<<"3", "0", "0">>)
        /\ calls[r1] = calls[r2]
        /\ Len(calls[r1]) = 2
        /\ response[r1].status = 200
        /\ response[r2].status = 500

\* C25: the handler does not deduplicate payment proofs. A POST on a
\* configured network with a decodable payment header calls /verify with that
\* payload and, once verify has accepted, /settle, whatever any other request
\* has presented or settled; so a state in which /settle has been called in
\* two requests for the same payload is reachable.
C25_NoDeduplication ==
    \A r \in Reqs :
        (/\ Processed(r)
         /\ request[r].method = "POST"
         /\ ConfiguredNetwork(r)
         /\ Supplied(NonEmptyHeader(request[r]))
         /\ Decodable(NonEmptyHeader(request[r]))) =>
            /\ VerifyCalled(r)
            /\ SentPayload(calls[r][1]) = Parse(Atob(NonEmptyHeader(request[r])))
            /\ (VerifyAccepted(r) /\ pc[r] \in {"settling", "settleBody", "responded"}) =>
                  /\ SettleCalled(r)
                  /\ SentPayload(calls[r][2]) = Parse(Atob(NonEmptyHeader(request[r])))

C25_Witness ==
    \E r1, r2 \in Reqs :
        /\ r1 # r2
        /\ SettleCalled(r1) /\ SettleCalled(r2)
        /\ SentPayload(calls[r1][2]) = Payload1
        /\ SentPayload(calls[r2][2]) = Payload1
        /\ Responded(r1) /\ response[r1].status = 200
        /\ Responded(r2) /\ response[r2].status = 200

\* C26: a response with status 400 or 402 was produced without /settle having
\* been called in its request; a request in which /settle was called ends
\* with status 200 or 500.
C26_SettleCalledEnds200Or500 ==
    \A r \in Reqs :
        Responded(r) =>
            /\ response[r].status \in {400, 402} => ~SettleCalled(r)
            /\ SettleCalled(r) => response[r].status \in {200, 500}

C26_Witness ==
    \E r \in Reqs :
        /\ Responded(r)
        /\ SettleCalled(r)
        /\ Answered(settleResponse[r])
        /\ ~settleResponse[r].rejected
        /\ settleResponse[r].status = 500
        /\ response[r].status = 500
        /\ response[r].body.error = "Payment settlement failed"

\* Every POST that has arrived is eventually answered.
C27_EventuallyResponds ==
    \A r \in {1} :
        (pc[r] = "received" /\ request[r].method = "POST") ~> Responded(r)
\* No exception leaves the POST handler when a payment header is present:
\* the answer is a response the handler returned.
C27_NoEscape ==
    \A r \in Reqs :
        (/\ Responded(r)
         /\ request[r].method = "POST"
         /\ PresentHeader(request[r]).present) =>
            ~response[r].threw

\* C27 as stated: provided every facilitator call eventually returns or
\* fails, every POST request eventually returns one HTTP response, and no
\* exception escapes the handler once a payment header is present (an error
\* thrown while decoding, verifying or settling becomes the response 500
\* "Payment processing failed").
C27_PostAlwaysResponds == C27_EventuallyResponds /\ [](C27_NoEscape)

\* cents * 10000 as text, for an amount text that is zero or negative
MinorUnitsOf(text) ==
    IF \A i \in 1..Len(text) : text[i] = "0" THEN <<"0">>
    ELSE IF StripLeadingZeros(Tail(text)) = <<>> THEN <<"0">>
    ELSE <<"-">> \o StripLeadingZeros(Tail(text)) \o <<"0", "0", "0", "0">>

\* C28: POST applies no amount validation. For a request GET rejects as
\* "Invalid amount" (a zero or negative amount, with a recipient and a network
\* GET accepts), a POST without payment header still issues the 402 challenge,
\* and with a payment header still calls /verify, in both cases with the
\* requirement built from that amount.
C28_PostDoesNotValidateAmount ==
    \A r \in Reqs :
        (/\ Processed(r)
         /\ request[r].method = "POST"
         /\ ConfiguredNetwork(r)
         /\ RecipientPatternTest(request[r].url.recipient)
         /\ ZeroOrNegative(request[r].url.amount.value)) =>
            /\ GetResponse(AsGet(request[r])) = ResponseJson([error |-> "Invalid amount"], 400)
            /\ ~Supplied(NonEmptyHeader(request[r])) =>
                  /\ response[r].status = 402
                  /\ Advertised(r)[1].amount = MinorUnitsOf(request[r].url.amount.value)
            /\ (Supplied(NonEmptyHeader(request[r]))
                   /\ Decodable(NonEmptyHeader(request[r]))) =>
                  /\ VerifyCalled(r)
                  /\ SentRequirement(calls[r][1]).amount =
                         MinorUnitsOf(request[r].url.amount.value)

C28_Witness ==
    \E r \in Reqs :
        /\ pc[r] = "verifying"
        /\ request[r].method = "POST"
        /\ request[r].url.recipient = ValidRecipient
        /\ request[r].url.amount = Param(<<"-", "5">>)
        /\ VerifyCalled(r)
        /\ SentRequirement(calls[r][1]).amount = <<"-", "5", "0", "0", "0", "0">>

\* C29 as stated: GET validates recipient, then network, then amount, and the
\* first failing check alone determines the 400 response: an invalid
\* recipient yields "Invalid recipient address" whatever the network and the
\* amount, and a network outside the profile table with a valid recipient
\* yields "Unsupported network" whatever the amount.
C29_GetValidationOrder ==
    \A r \in Reqs :
        (Responded(r) /\ request[r].method = "GET") =>
            /\ request[r].url.recipient # ValidRecipient =>
                  /\ response[r].status = 400
                  /\ response[r].body = [error |-> "Invalid recipient address"]
            /\ (request[r].url.recipient = ValidRecipient /\ ~ConfiguredNetwork(r)) =>
                  /\ response[r].status = 400
                  /\ response[r].body = [error |-> "Unsupported network"]

\* fetchWithPay returned a response that was ok with a body whose success is true
GoodAnswer(answer) ==
    /\ answer.settled
    /\ ~answer.rejected
    /\ answer.status \in 200..299
    /\ answer.body.readable
    /\ answer.body.text.isJson
    /\ answer.body.text.value # Null
    /\ answer.body.text.value.success = "true"

\* The status is "success" only with an ok, success-true answer of the payment
\* request, and txHash is then the txHash of that answer's body.
C30_SuccessOnlyAfterOk ==
    client.status = "success" =>
        /\ GoodAnswer(client.answer)
        /\ client.txHash = Hash(client.answer.body.text.value.txHash)
\* One step of the page: how a run of handleDonation ends, and what a run does
\* when the wallet is not connected.
C30_Step ==
    /\ (client.status # "success" /\ client'.status = "success") =>
          /\ client.at = "readingBody"
          /\ GoodAnswer(client'.answer)
    /\ (client.at \in {"switching", "requesting", "readingBody"} /\ client'.at = "idle") =>
          IF client.at = "readingBody" /\ GoodAnswer(client'.answer)
          THEN /\ client'.status = "success"
               /\ client'.txHash = Hash(client'.answer.body.text.value.txHash)
          ELSE /\ client'.status = "error"
               /\ ~client'.error.isNull
    /\ (/\ client.at = "idle"
        /\ client.status # "success"
        /\ ~client.isConnected
        /\ client' # client
        /\ client'.isConnected = client.isConnected
        /\ client'.walletReady = client.walletReady
        /\ client'.chainMatches = client.chainMatches) =>
          /\ client'.status = "connecting"
          /\ client'.at = "idle"
          /\ ~client'.requested
          /\ client'.answer = client.answer

\* C30: in the client donation flow the status becomes "success" only after
\* the POST response was ok and its body had success true, and txHash is then
\* that body's txHash; every error thrown while switching the network or
\* during the payment request, and every non-ok or non-success response, sets
\* the status "error" with a non-null message; when the wallet is not
\* connected the flow sets "connecting" and returns without sending a request.
C30_ClientFlow == [](C30_SuccessOnlyAfterOk) /\ [][C30_Step]_vars

C30_Witness ==
    /\ client.status = "success"
    /\ client.requested
    /\ client.answer = Resolves(200, Body(Stringify([success |-> "true", error |-> Undefined,
                                                     txHash |-> "0xabc123"])))
    /\ client.txHash = Hash("0xabc123")

====
